---------------------------- MODULE Spec2Model ----------------------------
(***************************************************************************)
(* Model of the Telegram group-accounting bot (midroiux/Telegram-robt-1.0). *)
(*                                                                         *)
(* The spreadsheet is the store: sheets Deposits, Withdrawals, Operators    *)
(* and GroupSettings are sequences of data rows (the header row, index 0    *)
(* in the code, is left out, so row i of a sequence is rows[i] of the       *)
(* code).  Time is counted in whole hours since an epoch, in UTC.           *)
(*                                                                         *)
(* Chinese literals of the source are written in pinyin, one string per     *)
(* character, so that substring tests (String.includes) and the regular     *)
(* expressions act on the same characters as in the source:                 *)
(*   status "Active"   = zheng-chang   (normal)                             *)
(*          "Reversed" = yi-che-xiao   (revoked)                            *)
(*          "Deleted"  = yi-shan-chu   (deleted)                            *)
(*          "Settled"  = yi-jie-suan   (settled)                            *)
(*   flag   "yes" = shi,  "no" = fou;   language "zh" = zhong-wen            *)
(***************************************************************************)
EXTENDS Integers, Sequences, FiniteSets, TLC

VARIABLES
  now,               \* Date.now(), whole hours since the epoch (UTC)
  tz,                \* UTC offset in hours of the server's local time zone
  Deposits,          \* sheet "Deposits"      (rows A:I)
  Withdrawals,       \* sheet "Withdrawals"   (rows A:I)
  Operators,         \* sheet "Operators"     (rows A:E)
  GroupSettings,     \* sheet "GroupSettings" (rows A:J)
  legacySheet,       \* does a sheet with the former (Chinese) name exist
  legacyCells,       \* cells written into that sheet
  processedUpdates,  \* the Map update_id -> first-seen time
  started,           \* update_ids for which the message handler was started
  outbox,            \* sendMessage requests made by the latest operation
  procs,             \* tool executions in flight, by slot (SpecRace)
  last               \* the operation that produced the current state

vars == <<now, tz, Deposits, Withdrawals, Operators, GroupSettings,
          legacySheet, legacyCells, processedUpdates, started, outbox,
          procs, last>>

-----------------------------------------------------------------------------
(* Bounds of the model                                                      *)

MaxRows == 2          \* rows appended to the ledger sheets (SpecLedger)
MaxBotRows == 1       \* ledger rows appended by messages (SpecBot)
MaxOps == 1           \* rows appended to the Operators sheet
MaxNow == 24          \* the clock stops advancing here (SpecLedger)
MaxWebhookNow == 3    \* the same, for the webhook (SpecDedup)
MaxDeliveries == 3    \* webhook deliveries recorded in `started'
MaxProcs == 2         \* tool executions in flight at once (SpecRace)
MaxRaceRows == 2      \* ledger rows appended under SpecRace
MaxCutoffRows == 2    \* deposits recorded under SpecCutoff
MaxCutoffNow == 30    \* the clock stops advancing here (SpecCutoff)
MaxCommandRows == 1   \* ledger rows appended by messages (SpecCommands)
MaxCommandOps == 1    \* rows appended to Operators (SpecCommands)
MaxRevokeRows == 2    \* deposits appended under SpecRevoke
MaxCronGroups == 2    \* groups with a settings row (SpecCron)
MaxCronRows == 2      \* deposits appended under SpecCron
MaxOperatorRows == 3  \* rows appended to Operators (SpecOperators)
MaxSettingsRaceRows == 2  \* GroupSettings rows (SpecSettingsRace)
MaxIsolationRows == 2     \* rows in the four sheets together (SpecIsolation)

Groups == {"g1", "g2"}
Users == {"u1", "u2"}

-----------------------------------------------------------------------------
(* Decimal numbers: m * 10^(-e), or NaN                                     *)

RECURSIVE Pow10(_)
Pow10(n) == IF n <= 0 THEN 1 ELSE 10 * Pow10(n - 1)

RECURSIVE DecNorm(_, _)
DecNorm(m, e) ==
  IF e > 0 /\ m % 10 = 0 THEN DecNorm(m \div 10, e - 1)
  ELSE [nan |-> FALSE, m |-> m, e |-> e]

NaN == [nan |-> TRUE, m |-> 0, e |-> 0]
DecInt(n) == [nan |-> FALSE, m |-> n, e |-> 0]
Max(a, b) == IF a >= b THEN a ELSE b
Scaled(x, e) == x.m * Pow10(e - x.e)

DecAdd(a, b) ==
  IF a.nan \/ b.nan THEN NaN
  ELSE LET e == Max(a.e, b.e) IN DecNorm(Scaled(a, e) + Scaled(b, e), e)
DecSub(a, b) ==
  IF a.nan \/ b.nan THEN NaN
  ELSE LET e == Max(a.e, b.e) IN DecNorm(Scaled(a, e) - Scaled(b, e), e)
DecMul(a, b) ==
  IF a.nan \/ b.nan THEN NaN ELSE DecNorm(a.m * b.m, a.e + b.e)
DecDiv100(a) == IF a.nan THEN NaN ELSE DecNorm(a.m, a.e + 2)
\* every comparison with NaN is false, as in JavaScript
DecLt(a, b) ==
  /\ ~a.nan /\ ~b.nan
  /\ LET e == Max(a.e, b.e) IN Scaled(a, e) < Scaled(b, e)
DecGtOrEqual(a, b) == ~a.nan /\ ~b.nan /\ ~DecLt(a, b)
DecGt(a, b) == DecLt(b, a)
DecGe(a, b) == ~a.nan /\ ~b.nan /\ ~DecLt(a, b)

-----------------------------------------------------------------------------
(* Spreadsheet cells                                                        *)

StrCell(s) == [k |-> "str", nan |-> FALSE, m |-> 0, e |-> 0, s |-> s, t |-> 0]
NumCell(d) == [k |-> "num", nan |-> d.nan, m |-> d.m, e |-> d.e, s |-> "", t |-> 0]
TimeCell(t) == [k |-> "time", nan |-> FALSE, m |-> 0, e |-> 0, s |-> "", t |-> t]
Empty == StrCell("")
IsEmpty(c) == c.k = "str" /\ c.s = ""
IsYes(c) == c.k = "str" /\ c.s = "yes"

\* parseFloat(cell || dflt): an empty cell takes the default, a number cell
\* is its number, any other text (a yes/no flag) is NaN.
parseFloatCell(c, dflt) ==
  IF IsEmpty(c) THEN DecInt(dflt)
  ELSE IF c.k = "num" THEN [nan |-> c.nan, m |-> c.m, e |-> c.e]
  ELSE NaN

\* parseInt(cell || dflt): as parseFloat, cut at the decimal point
parseIntCell(c, dflt) ==
  LET d == parseFloatCell(c, dflt)
  IN IF d.nan THEN NaN
     ELSE IF d.m >= 0 THEN DecInt(d.m \div Pow10(d.e))
     ELSE DecInt(0 - ((0 - d.m) \div Pow10(d.e)))

-----------------------------------------------------------------------------
(* Message text: a sequence of characters                                   *)

Digits == {"0", "1", "2", "3", "4", "5", "6", "7", "8", "9"}
DigitVal(c) ==
  CASE c = "0" -> 0 [] c = "1" -> 1 [] c = "2" -> 2 [] c = "3" -> 3
    [] c = "4" -> 4 [] c = "5" -> 5 [] c = "6" -> 6 [] c = "7" -> 7
    [] c = "8" -> 8 [] OTHER -> 9

\* String.prototype.includes
includes(text, pat) ==
  \E i \in 1..(Len(text) - Len(pat) + 1) :
     SubSeq(text, i, i + Len(pat) - 1) = pat

\* String.prototype.trim
RECURSIVE trimLeft(_)
trimLeft(text) ==
  IF Len(text) > 0 /\ Head(text) = " " THEN trimLeft(Tail(text)) ELSE text
RECURSIVE trimRight(_)
trimRight(text) ==
  IF Len(text) > 0 /\ text[Len(text)] = " "
  THEN trimRight(SubSeq(text, 1, Len(text) - 1)) ELSE text
trim(text) == trimRight(trimLeft(text))

\* \d+
IsDigits(s) == Len(s) > 0 /\ \A i \in 1..Len(s) : s[i] \in Digits
\* \d+(?:\.\d+)?
IsNumber(s) ==
  \/ IsDigits(s)
  \/ \E i \in 1..Len(s) :
       /\ s[i] = "."
       /\ IsDigits(SubSeq(s, 1, i - 1))
       /\ IsDigits(SubSeq(s, i + 1, Len(s)))

RECURSIVE DigitsVal(_)
DigitsVal(s) ==
  IF Len(s) = 0 THEN 0
  ELSE 10 * DigitsVal(SubSeq(s, 1, Len(s) - 1)) + DigitVal(s[Len(s)])

\* parseFloat of a string that matches -?\d+(?:\.\d+)?
parseFloat(s) ==
  LET neg == Len(s) > 0 /\ Head(s) = "-"
      body == IF neg THEN Tail(s) ELSE s
      dots == {i \in 1..Len(body) : body[i] = "."}
      dot == IF dots = {} THEN Len(body) + 1 ELSE CHOOSE i \in dots : TRUE
      whole == SubSeq(body, 1, dot - 1)
      frac == SubSeq(body, dot + 1, Len(body))
      m == DigitsVal(whole \o frac)
  IN DecNorm(IF neg THEN 0 - m ELSE m, Len(frac))

\* msg.match(/^\+(\d+(?:\.\d+)?)(\$)?$/) with sign "+", and the same with "-"
amountMatch(msg, sign) ==
  LET usd == Len(msg) > 0 /\ msg[Len(msg)] = "$"
      body == IF Len(msg) = 0 THEN <<>>
              ELSE SubSeq(msg, 2, IF usd THEN Len(msg) - 1 ELSE Len(msg))
  IN [matched |-> Len(msg) > 0 /\ Head(msg) = sign /\ IsNumber(body),
      number |-> body,
      currency |-> IF usd THEN "USD" ELSE "THB"]

\* msg.match(/^<prefix>\s*(-?\d+(?:\.\d+)?)$/)
feeMatch(msg, prefix) ==
  LET rest == IF Len(msg) >= Len(prefix)
              THEN trimLeft(SubSeq(msg, Len(prefix) + 1, Len(msg))) ELSE <<>>
      body == IF Len(rest) > 0 /\ Head(rest) = "-" THEN Tail(rest) ELSE rest
  IN [matched |-> /\ Len(msg) >= Len(prefix)
                  /\ SubSeq(msg, 1, Len(prefix)) = prefix
                  /\ IsNumber(body),
      number |-> rest]

\* the literals of processAccountingMessage
T_myID == <<"wo", "de", "I", "D">>
T_myid == <<"wo", "de", "i", "d">>
T_slashmyid == <<"/", "m", "y", "i", "d">>
T_addPerm == <<"tian", "jia", "quan2", "xian">>
T_addOp == <<"tian", "jia", "cao", "zuo", "ren">>
T_removePerm == <<"yi", "chu", "quan2", "xian">>
T_deleteOp == <<"shan", "chu", "cao", "zuo", "ren">>
T_opList == <<"cao", "zuo", "ren", "lie", "biao">>
T_viewOps == <<"cha", "kan", "cao", "zuo", "ren">>
T_ledger == <<"zong", "zhang">>
T_bills == <<"zhang", "dan">>
T_query == <<"cha", "xun">>
T_settle == <<"jie", "suan">>
T_all == <<"quan", "bu">>
T_fullBills == <<"wan", "zheng", "zhang", "dan">>
T_dailySettle == <<"ri", "jie", "suan">>
T_todaySettle == <<"jin", "ri", "jie", "suan">>
T_incomeFee == <<"ru", "kuan", "fei", "lv">>
T_outgoingFee == <<"xia", "fa", "fei", "lv">>
T_delete == <<"shan", "chu">>

-----------------------------------------------------------------------------
(* The store and the ledger tools (transactionTools.ts)                     *)

\* the sheets a tool execution reads and writes
Store == [Deposits |-> Deposits, Withdrawals |-> Withdrawals,
          Operators |-> Operators, GroupSettings |-> GroupSettings,
          legacyCells |-> legacyCells]

LedgerRow(t, g, u, amount, currency) ==
  [id |-> t, ts |-> t, g |-> g, u |-> u, amount |-> amount,
   currency |-> currency, status |-> "Active"]

\* sheets.spreadsheets.values.update of column H for the rows in idx
MarkRows(sheet, idx, status) ==
  [i \in DOMAIN sheet |->
     IF i \in idx THEN [sheet[i] EXCEPT !.status = status] ELSE sheet[i]]

RECURSIVE SumAmounts(_, _)
SumAmounts(sheet, idx) ==
  IF idx = {} THEN DecInt(0)
  ELSE LET i == CHOOSE j \in idx : TRUE
       IN DecAdd(sheet[i].amount, SumAmounts(sheet, idx \ {i}))

ActiveRowsOfAnyGroup(sheet, g) ==
  {i \in DOMAIN sheet : sheet[i].status = "Active"}

ActiveRows(sheet, g) ==
  {i \in DOMAIN sheet : sheet[i].g = g /\ sheet[i].status = "Active"}

\* an append that writes the default currency whatever it is given
addIncomeRecordOverLastRow(S, g, u, amount, currency, t, ok) ==
  IF ~ok THEN [S |-> S, success |-> FALSE]
  ELSE [S |-> [S EXCEPT !.Deposits =
                 IF @ = <<>>
                 THEN Append(@, LedgerRow(t, g, u, amount, currency))
                 ELSE [@ EXCEPT ![Len(@)] =
                         LedgerRow(t, g, u, amount, currency)]],
        success |-> TRUE]

addIncomeRecordInBaht(S, g, u, amount, currency, t, ok) ==
  IF ~ok THEN [S |-> S, success |-> FALSE]
  ELSE [S |-> [S EXCEPT !.Deposits =
                 Append(@, LedgerRow(t, g, u, amount, "THB"))],
        success |-> TRUE]

addIncomeRecord(S, g, u, amount, currency, t, ok) ==
  IF ~ok THEN [S |-> S, success |-> FALSE]
  ELSE [S |-> [S EXCEPT !.Deposits =
                 Append(@, LedgerRow(t, g, u, amount, currency))],
        success |-> TRUE]

addOutgoingRecord(S, g, u, amount, currency, t, ok) ==
  IF ~ok THEN [S |-> S, success |-> FALSE]
  ELSE [S |-> [S EXCEPT !.Withdrawals =
                 Append(@, LedgerRow(t, g, u, amount, currency))],
        success |-> TRUE]

\* the loop "for (i = rows.length - 1; i >= 1; i--)": the last Active row of
\* the group (of the user, when a userId is given; "" stands for none), 0 if
\* there is none
firstActiveIndex(sheet, g, userId) ==
  LET c == {i \in ActiveRows(sheet, g) : userId = "" \/ sheet[i].u = userId}
  IN IF c = {} THEN 0 ELSE CHOOSE i \in c : \A j \in c : i <= j

lastActiveIndex(sheet, g, userId) ==
  LET c == {i \in ActiveRows(sheet, g) : userId = "" \/ sheet[i].u = userId}
  IN IF c = {} THEN 0 ELSE CHOOSE i \in c : \A j \in c : j <= i

revokeLastIncome(S, g, userId, ok) ==
  LET i == lastActiveIndex(S.Deposits, g, userId)
  IN IF ~ok \/ i = 0 THEN [S |-> S, success |-> FALSE, row |-> 0]
     ELSE [S |-> [S EXCEPT !.Deposits = MarkRows(@, {i}, "Reversed")],
           success |-> TRUE, row |-> i]

revokeLastOutgoing(S, g, userId, ok) ==
  LET i == lastActiveIndex(S.Withdrawals, g, userId)
  IN IF ~ok \/ i = 0 THEN [S |-> S, success |-> FALSE, row |-> 0]
     ELSE [S |-> [S EXCEPT !.Withdrawals = MarkRows(@, {i}, "Reversed")],
           success |-> TRUE, row |-> i]

deleteAllRecordsMarksNothing(S, g, ok) ==
  [S |-> S, success |-> ok, incomeDeleted |-> 0, outgoingDeleted |-> 0]

deleteAllRecords(S, g, ok) ==
  LET inc == ActiveRows(S.Deposits, g)
      out == ActiveRows(S.Withdrawals, g)
  IN IF ~ok
     THEN [S |-> S, success |-> FALSE,
           incomeDeleted |-> 0, outgoingDeleted |-> 0]
     ELSE [S |-> [S EXCEPT !.Deposits = MarkRows(@, inc, "Deleted"),
                           !.Withdrawals = MarkRows(@, out, "Deleted")],
           success |-> TRUE,
           incomeDeleted |-> Cardinality(inc),
           outgoingDeleted |-> Cardinality(out)]

-----------------------------------------------------------------------------
(* Ledger reports and the daily settlement (queryTools.ts)                  *)

HoursPerDay == 24
BangkokOffset == 7

\* the settings row of a group: the first row whose column A is the group
\* id, 0 if there is none
settingsRowIndex(rows, g) ==
  LET c == {i \in DOMAIN rows : rows[i].A = g}
  IN IF c = {} THEN 0 ELSE CHOOSE i \in c : \A j \in c : i <= j

\* getTodayDateString(): the date in the server's local time zone
getTodayDateString(t, zone) == (t + zone) \div HoursPerDay
\* timestamp.split(' ')[0] of a record: the UTC date it was written with
recordDate(ts) == ts \div HoursPerDay

feeRates(rows, g, dfltIncome) ==
  LET i == settingsRowIndex(rows, g)
  IN IF i = 0
     THEN [income |-> DecInt(dfltIncome), outgoing |-> DecInt(0)]
     ELSE [income |-> parseFloatCell(rows[i].C, dfltIncome),
           outgoing |-> parseFloatCell(rows[i].D, 0)]

DefaultIncomeFeeRate == 6

actualIncomeOfNoFee(total, rate) == total

\* totalIncome * feeMultiplier, feeMultiplier = (100 - incomeFeeRate) / 100
actualIncomeOf(total, rate) ==
  DecMul(total, DecDiv100(DecSub(DecInt(100), rate)))
\* totalOutgoing * (1 + outgoingFeeRate / 100)
actualOutgoingOf(total, rate) ==
  DecMul(total, DecAdd(DecInt(1), DecDiv100(rate)))

Report(ok, inc, out, totalIncome, totalOutgoing, rates) ==
  LET ai == actualIncomeOf(totalIncome, rates.income)
      ao == actualOutgoingOf(totalOutgoing, rates.outgoing)
  IN [success |-> ok, incomeRows |-> inc, outgoingRows |-> out,
      totalIncome |-> totalIncome, totalOutgoing |-> totalOutgoing,
      incomeFeeRate |-> rates.income, outgoingFeeRate |-> rates.outgoing,
      actualIncome |-> ai, actualOutgoing |-> ao,
      netProfit |-> DecSub(ai, ao)]

FailedReport ==
  Report(FALSE, {}, {}, DecInt(0), DecInt(0),
         [income |-> DecInt(0), outgoing |-> DecInt(0)])

\* showAllBills of the current query tools: every Active record of the group
showAllBills(S, g, ok) ==
  IF ~ok THEN FailedReport
  ELSE LET inc == ActiveRows(S.Deposits, g)
           out == ActiveRows(S.Withdrawals, g)
       IN Report(TRUE, inc, out, SumAmounts(S.Deposits, inc),
                 SumAmounts(S.Withdrawals, out),
                 feeRates(S.GroupSettings, g, DefaultIncomeFeeRate))

settledTodayAnyStatus(sheet, g, today) ==
  {i \in DOMAIN sheet : sheet[i].g = g /\ recordDate(sheet[i].ts) = today}

settledToday(sheet, g, today) ==
  {i \in ActiveRows(sheet, g) : recordDate(sheet[i].ts) = today}

dailySettlement(S, g, t, zone, ok) ==
  IF ~ok THEN [S |-> S, report |-> FailedReport]
  ELSE LET today == getTodayDateString(t, zone)
           inc == settledToday(S.Deposits, g, today)
           out == settledToday(S.Withdrawals, g, today)
       IN [S |-> [S EXCEPT !.Deposits = MarkRows(@, inc, "Settled"),
                           !.Withdrawals = MarkRows(@, out, "Settled")],
           report |-> Report(TRUE, inc, out, SumAmounts(S.Deposits, inc),
                        SumAmounts(S.Withdrawals, out),
                        feeRates(S.GroupSettings, g, DefaultIncomeFeeRate))]

-----------------------------------------------------------------------------
(* Operators and permissions (groupAccountingTools.ts)                      *)

addOperator(S, g, u, ok) ==
  IF ~ok THEN [S |-> S, success |-> FALSE]
  ELSE [S |-> [S EXCEPT !.Operators =
                 Append(@, [g |-> g, u |-> u, status |-> "Active"])],
        success |-> TRUE]

\* the first Active row of the user in the group, 0 if there is none
operatorIndex(rows, g, u) ==
  LET c == {i \in DOMAIN rows :
              rows[i].g = g /\ rows[i].u = u /\ rows[i].status = "Active"}
  IN IF c = {} THEN 0 ELSE CHOOSE i \in c : \A j \in c : i <= j

removeOperator(S, g, u, ok) ==
  LET i == operatorIndex(S.Operators, g, u)
  IN IF ~ok \/ i = 0 THEN [S |-> S, success |-> FALSE]
     ELSE [S |-> [S EXCEPT !.Operators[i].status = "Removed"],
           success |-> TRUE]

listOperators(S, g, ok) ==
  [success |-> ok,
   operators |-> IF ok THEN {i \in DOMAIN S.Operators :
                               /\ S.Operators[i].g = g
                               /\ S.Operators[i].status = "Active"}
                 ELSE {}]

SettingsRow(a, b, c, d, e, f, g, h, i, j) ==
  [A |-> a, B |-> b, C |-> c, D |-> d, E |-> e, F |-> f, G |-> g, H |-> h,
   I |-> i, J |-> j]

YesNo(b) == StrCell(IF b THEN "yes" ELSE "no")

DefaultExchangeRate == 35
DefaultFeeRate == 5
DefaultCutoffHour == 6

\* The update of an existing row addresses the sheet by its former name, so
\* it throws when no such sheet exists and otherwise lands in that sheet;
\* the append goes to GroupSettings, eight columns wide.
setAllUsersMode(S, g, enabled, legacy, ok) ==
  LET i == settingsRowIndex(S.GroupSettings, g)
  IN IF ~ok THEN [S |-> S, success |-> FALSE]
     ELSE IF i # 0
     THEN IF legacy
          THEN [S |-> [S EXCEPT !.legacyCells =
                         {c \in @ : c[1] # "E" \/ c[2] # i + 1}
                           \cup {<<"E", i + 1, YesNo(enabled).s>>}],
                success |-> TRUE]
          ELSE [S |-> S, success |-> FALSE]
     ELSE [S |-> [S EXCEPT !.GroupSettings = Append(@,
                    SettingsRow(g, NumCell(DecInt(DefaultExchangeRate)),
                      NumCell(DecInt(DefaultFeeRate)),
                      NumCell(DecInt(DefaultCutoffHour)), YesNo(enabled),
                      YesNo(FALSE), Empty, YesNo(FALSE), Empty, Empty))],
           success |-> TRUE]

allUsersModeRow(rows, g) ==
  \E i \in DOMAIN rows : rows[i].A = g /\ IsYes(rows[i].E)
isActiveOperator(rows, g, u) ==
  \E i \in DOMAIN rows :
     rows[i].g = g /\ rows[i].u = u /\ rows[i].status = "Active"

checkUserPermission(S, g, u, ok) ==
  IF ~ok THEN [hasPermission |-> FALSE, reason |-> "check-failed"]
  ELSE IF allUsersModeRow(S.GroupSettings, g)
  THEN [hasPermission |-> TRUE, reason |-> "all-users"]
  ELSE IF isActiveOperator(S.Operators, g, u)
  THEN [hasPermission |-> TRUE, reason |-> "operator"]
  ELSE [hasPermission |-> FALSE, reason |-> "not-operator"]

-----------------------------------------------------------------------------
(* Rates and settings (rateTools.ts)                                        *)

setIncomeFeeRate(S, g, rate, ok) ==
  LET i == settingsRowIndex(S.GroupSettings, g)
  IN IF ~ok THEN [S |-> S, success |-> FALSE]
     ELSE IF i # 0
     THEN [S |-> [S EXCEPT !.GroupSettings[i].C = NumCell(rate)],
           success |-> TRUE]
     ELSE [S |-> [S EXCEPT !.GroupSettings = Append(@,
                    SettingsRow(g, NumCell(DecInt(DefaultExchangeRate)),
                      NumCell(rate), NumCell(DecInt(0)),
                      NumCell(DecInt(DefaultCutoffHour)), YesNo(FALSE),
                      YesNo(FALSE), Empty, YesNo(FALSE), Empty))],
           success |-> TRUE]

setOutgoingFeeRate(S, g, rate, ok) ==
  LET i == settingsRowIndex(S.GroupSettings, g)
  IN IF ~ok THEN [S |-> S, success |-> FALSE]
     ELSE IF i # 0
     THEN [S |-> [S EXCEPT !.GroupSettings[i].D = NumCell(rate)],
           success |-> TRUE]
     ELSE [S |-> [S EXCEPT !.GroupSettings = Append(@,
                    SettingsRow(g, NumCell(DecInt(DefaultExchangeRate)),
                      NumCell(DecInt(DefaultFeeRate)), NumCell(rate),
                      NumCell(DecInt(DefaultCutoffHour)), YesNo(FALSE),
                      YesNo(FALSE), Empty, YesNo(FALSE), Empty))],
           success |-> TRUE]

setCutoffTime(S, g, hour, ok) ==
  LET i == settingsRowIndex(S.GroupSettings, g)
  IN IF ~ok THEN [S |-> S, success |-> FALSE]
     ELSE IF i # 0
     THEN [S |-> [S EXCEPT !.GroupSettings[i].E = NumCell(DecInt(hour))],
           success |-> TRUE]
     ELSE [S |-> [S EXCEPT !.GroupSettings = Append(@,
                    SettingsRow(g, NumCell(DecInt(DefaultExchangeRate)),
                      NumCell(DecInt(DefaultFeeRate)), NumCell(DecInt(0)),
                      NumCell(DecInt(hour)), YesNo(FALSE), YesNo(FALSE),
                      Empty, YesNo(FALSE), StrCell("zh")))],
           success |-> TRUE]

getGroupSettings(S, g, ok) ==
  LET rows == S.GroupSettings
      i == settingsRowIndex(rows, g)
  IN IF ~ok \/ i = 0
     THEN [success |-> ok, exchangeRate |-> DecInt(DefaultExchangeRate),
           incomeFeeRate |-> DecInt(DefaultFeeRate),
           outgoingFeeRate |-> DecInt(0),
           cutoffTime |-> DecInt(DefaultCutoffHour), allUsersMode |-> FALSE]
     ELSE [success |-> TRUE,
           exchangeRate |-> parseFloatCell(rows[i].B, DefaultExchangeRate),
           incomeFeeRate |-> parseFloatCell(rows[i].C, DefaultFeeRate),
           outgoingFeeRate |-> parseFloatCell(rows[i].D, 0),
           cutoffTime |-> parseIntCell(rows[i].E, DefaultCutoffHour),
           allUsersMode |-> IsYes(rows[i].F)]

-----------------------------------------------------------------------------
(* The since-cutoff ledger report (showAllBills of queryTools.ts)           *)

\* new Date(now.toLocaleString('en-US', {timeZone: 'Asia/Bangkok'})): a Date
\* whose local wall clock shows the Bangkok wall clock.  Dates built this
\* way are represented by their local wall-clock reading.
bangkokTime(t) == t + BangkokOffset
\* todayCutoff.setHours(cutoffHour, 0, 0, 0), as a local wall-clock reading
todayCutoff(t, cutoffHour) ==
  (bangkokTime(t) \div HoursPerDay) * HoursPerDay + cutoffHour
\* todayCutoff.toLocaleString('zh-CN', {timeZone: 'Asia/Bangkok', ...}): the
\* instant of the local reading c, shown as a Bangkok wall clock
newRefreshTime(c, zone) == (c - zone) + BangkokOffset

\* new Date(lastRefreshTime) < todayCutoff; text that is no date gives an
\* Invalid Date, which compares false
refreshedBefore(h, c) == h.k = "time" /\ h.t < c

shouldRefresh(h, t, cutoffHour) ==
  \/ IsEmpty(h)
  \/ /\ bangkokTime(t) >= todayCutoff(t, cutoffHour)
     /\ (IsEmpty(h) \/ refreshedBefore(h, todayCutoff(t, cutoffHour)))

\* lastRefreshTime && timestamp < lastRefreshTime, a comparison of strings:
\* two timestamps of the same layout compare as their readings; a timestamp
\* starts with a digit and so sorts before a yes/no flag found in column H
beforeRefresh(ts, h) ==
  /\ ~IsEmpty(h)
  /\ IF h.k = "time" THEN ts < h.t ELSE TRUE

sinceCutoffRows(sheet, g, h) ==
  {i \in ActiveRows(sheet, g) : ~beforeRefresh(sheet[i].ts, h)}

\* totalIncomeTHB + totalIncomeUSD * exchangeRate
convertedTotal(sheet, idx, exchangeRate) ==
  DecAdd(SumAmounts(sheet, {i \in idx : sheet[i].currency = "THB"}),
         DecMul(SumAmounts(sheet, {i \in idx : sheet[i].currency # "THB"}),
                exchangeRate))

\* totalIncome * (1 - incomeFeeRate / 100)
actualIncomeSinceCutoff(total, rate) ==
  DecMul(total, DecSub(DecInt(1), DecDiv100(rate)))

showAllBillsSinceCutoff(S, g, t, zone, ok) ==
  LET rows == S.GroupSettings
      i == settingsRowIndex(rows, g)
      exchangeRate == IF i = 0 THEN DecInt(DefaultExchangeRate)
                      ELSE parseFloatCell(rows[i].B, DefaultExchangeRate)
      rates == feeRates(rows, g, DefaultFeeRate)
      cutoffHour == IF i = 0 THEN DecInt(DefaultCutoffHour)
                    ELSE parseIntCell(rows[i].E, DefaultCutoffHour)
      h0 == IF i = 0 THEN Empty ELSE rows[i].H
      refresh == /\ i # 0
                 /\ DecGe(cutoffHour, DecInt(0))
                 /\ shouldRefresh(h0, t, cutoffHour.m)
      h == IF refresh
           THEN TimeCell(newRefreshTime(todayCutoff(t, cutoffHour.m), zone))
           ELSE h0
      S1 == IF refresh THEN [S EXCEPT !.GroupSettings[i].H = h] ELSE S
      inc == sinceCutoffRows(S.Deposits, g, h)
      out == sinceCutoffRows(S.Withdrawals, g, h)
      totalIncome == convertedTotal(S.Deposits, inc, exchangeRate)
      totalOutgoing == convertedTotal(S.Withdrawals, out, exchangeRate)
      ai == actualIncomeSinceCutoff(totalIncome, rates.income)
      ao == actualOutgoingOf(totalOutgoing, rates.outgoing)
  IN IF ~ok THEN [S |-> S, refreshed |-> FALSE, report |-> FailedReport]
     ELSE [S |-> S1, refreshed |-> refresh,
           report |-> [success |-> TRUE, incomeRows |-> inc,
                       outgoingRows |-> out, totalIncome |-> totalIncome,
                       totalOutgoing |-> totalOutgoing,
                       incomeFeeRate |-> rates.income,
                       outgoingFeeRate |-> rates.outgoing,
                       actualIncome |-> ai, actualOutgoing |-> ao,
                       netProfit |-> DecSub(ai, ao)]]

-----------------------------------------------------------------------------
(* The accounting workflow (accountingWorkflow.ts)                          *)

\* what the getChatMember call of isGroupAdmin can come back with
LookupFailures == {"no_token", "http_error", "api_error", "throws"}
MemberStatuses == {"creator", "administrator", "member"}
Lookups == MemberStatuses \cup LookupFailures

isGroupAdminTrusting(lookup) == lookup # "member"
isGroupAdminCreatorOnly(lookup) == lookup = "creator"

isGroupAdmin(lookup) ==
  IF lookup = "no_token" THEN FALSE
  ELSE IF lookup = "throws" THEN FALSE
  ELSE IF lookup = "http_error" THEN FALSE
  ELSE IF lookup = "api_error" THEN FALSE
  ELSE lookup = "creator" \/ lookup = "administrator"

Result(S, branch, response, success) ==
  [S |-> S, branch |-> branch, response |-> response, success |-> success]

\* the tests processAccountingMessage makes on the text of a message, in
\* the order it makes them
syntaxOf(text) ==
  LET msg == trim(text)
      incomeMatch == amountMatch(msg, "+")
      outgoingMatch == amountMatch(msg, "-")
      incomeFeeMatch == feeMatch(msg, T_incomeFee)
      outgoingFeeMatch == feeMatch(msg, T_outgoingFee)
      amountOf(mt) == IF mt.matched THEN parseFloat(mt.number) ELSE NaN
  IN [whoAmI |-> msg = T_myID \/ msg = T_myid \/ msg = T_slashmyid,
      addOperator |-> includes(msg, T_addPerm) \/ includes(msg, T_addOp),
      removeOperator |->
        includes(msg, T_removePerm) \/ includes(msg, T_deleteOp),
      listOperators |-> msg = T_opList \/ msg = T_viewOps,
      income |-> incomeMatch.matched,
      incomeAmount |-> amountOf(incomeMatch),
      incomeCurrency |-> incomeMatch.currency,
      outgoing |-> outgoingMatch.matched,
      outgoingAmount |-> amountOf(outgoingMatch),
      outgoingCurrency |-> outgoingMatch.currency,
      bills |-> msg = T_ledger \/ msg = T_bills \/ msg = T_query,
      fullBills |-> msg = T_settle \/ msg = T_all \/ msg = T_fullBills,
      dailySettle |-> msg = T_dailySettle \/ msg = T_todaySettle,
      incomeFee |-> incomeFeeMatch.matched,
      incomeFeeRate |-> amountOf(incomeFeeMatch),
      outgoingFee |-> outgoingFeeMatch.matched,
      outgoingFeeRate |-> amountOf(outgoingFeeMatch),
      deleteAll |-> includes(msg, T_delete) /\ includes(msg, T_bills)]

\* the texts the specifications send
BotTexts ==
  { <<"+", "1", "0", "0", "0">>, <<"-", "5", "0", "0">>,
    T_myID, <<" ">> \o T_opList, T_addOp, T_deleteOp,
    T_dailySettle, T_incomeFee \o <<"6">>, T_delete \o T_bills,
    <<"h", "i">> }

\* texts at the edges of the command rules: zero amounts, fee rates at and
\* beyond the ends of the range, texts that satisfy more than one rule, and
\* a text to be trimmed
FeeTexts ==
  { T_incomeFee \o <<"1", "5", "0">>, T_incomeFee \o <<"1", "0", "0">>,
    T_incomeFee \o <<"-", "1", "0", "0">>,
    T_outgoingFee \o <<"-", "1", "0", "1">>,
    T_outgoingFee \o <<" ", "1", "0", "0">>,
    T_outgoingFee \o <<"1", "0", "0", ".", "5">> }
AmountTexts ==
  { <<"+", "0">>, <<"-", "0", ".", "0">>, <<"+", "5", "$">>,
    <<"-", "7", ".", "5", "$">> }
OverlapTexts ==
  { T_addOp \o T_deleteOp, T_deleteOp \o T_bills }
CommandTexts ==
  FeeTexts \cup AmountTexts \cup OverlapTexts \cup
  { T_myID, T_opList, <<" ">> \o T_bills \o <<" ">>, T_fullBills,
    T_dailySettle, T_delete \o T_bills, <<"h", "i">> }

Texts == BotTexts \cup CommandTexts

\* syntaxOf, tabulated once for the texts in use
syntax == [text \in Texts |-> syntaxOf(text)]

\* the commands behind the permission check, for an authorized sender
authorizedCommand(S, m, t, zone) ==
  LET p == syntax[m.text]
  IN IF p.income
     THEN LET r == addIncomeRecord(S, m.g, m.u, p.incomeAmount,
                                   p.incomeCurrency, t, m.ok)
          IN Result(r.S, "Deposit", "deposit-ok", TRUE)
     ELSE IF p.outgoing
     THEN LET r == addOutgoingRecord(S, m.g, m.u, p.outgoingAmount,
                                     p.outgoingCurrency, t, m.ok)
          IN Result(r.S, "Withdraw", "withdraw-ok", TRUE)
     ELSE IF p.bills
     THEN Result(S, "ShowLedger", "report", TRUE)
     ELSE IF p.fullBills
     THEN Result(S, "ShowLedgerFull", "report", TRUE)
     ELSE IF p.dailySettle
     THEN LET r == dailySettlement(S, m.g, t, zone, m.ok)
          IN Result(r.S, "DailySettle",
                    IF r.report.success THEN "settlement" ELSE "error",
                    r.report.success)
     ELSE IF p.incomeFee
     THEN IF \/ DecLt(p.incomeFeeRate, DecInt(-100))
             \/ DecGt(p.incomeFeeRate, DecInt(100))
          THEN Result(S, "SetIncomeFeeRate", "rate-out-of-range", FALSE)
          ELSE LET r == setIncomeFeeRate(S, m.g, p.incomeFeeRate, m.ok)
               IN Result(r.S, "SetIncomeFeeRate",
                         IF r.success THEN "rate-set" ELSE "error",
                         r.success)
     ELSE IF p.outgoingFee
     THEN IF \/ DecLt(p.outgoingFeeRate, DecInt(-100))
             \/ DecGt(p.outgoingFeeRate, DecInt(100))
          THEN Result(S, "SetOutgoingFeeRate", "rate-out-of-range", FALSE)
          ELSE LET r == setOutgoingFeeRate(S, m.g, p.outgoingFeeRate, m.ok)
               IN Result(r.S, "SetOutgoingFeeRate",
                         IF r.success THEN "rate-set" ELSE "error",
                         r.success)
     ELSE IF p.deleteAll
     THEN LET r == deleteAllRecords(S, m.g, m.ok)
          IN Result(r.S, "DeleteAll",
                    IF r.success THEN "deleted" ELSE "error", TRUE)
     ELSE Result(S, "Unrecognized", "", FALSE)

permittedUnchecked(S, m) == TRUE

\* the permission check in front of the commands above
permitted(S, m) ==
  IF isGroupAdmin(m.lookup) THEN TRUE
  ELSE checkUserPermission(S, m.g, m.u, m.ok).hasPermission

\* execute of the step process-accounting-message.  m is the input: group
\* (chat) g, sender u, text, the sender of the replied-to message (replyTo)
\* and the user of a text_mention entity (mention), "" when absent, the
\* outcome of the admin lookup, and whether the spreadsheet can be reached.
\* a dispatch whose operator rules make no administrator test
processAccountingMessageOpenOperators(S, m, t, zone) ==
  LET p == syntax[m.text]
      addTarget == IF m.replyTo # "" THEN m.replyTo ELSE m.mention
  IN IF p.whoAmI
     THEN Result(S, "WhoAmI", "whoami", TRUE)
     ELSE IF p.addOperator
     THEN IF addTarget = ""
          THEN Result(S, "AddOperator", "no-target", FALSE)
          ELSE LET r == addOperator(S, m.g, addTarget, m.ok)
               IN Result(r.S, "AddOperator",
                         IF r.success THEN "operator-added" ELSE "error",
                         r.success)
     ELSE IF p.removeOperator
     THEN IF m.replyTo = ""
          THEN Result(S, "RemoveOperator", "no-target", FALSE)
          ELSE LET r == removeOperator(S, m.g, m.replyTo, m.ok)
               IN Result(r.S, "RemoveOperator",
                         IF r.success THEN "operator-removed" ELSE "error",
                         r.success)
     ELSE IF p.listOperators
     THEN Result(S, "ListOperators",
                 IF listOperators(S, m.g, m.ok).success THEN "operators"
                 ELSE "error",
                 listOperators(S, m.g, m.ok).success)
     ELSE IF ~permitted(S, m)
     THEN Result(S, "Denied", "denied", FALSE)
     ELSE authorizedCommand(S, m, t, zone)

\* a dispatch without the operator-management rules
processAccountingMessageLedgerOnly(S, m, t, zone) ==
  IF syntax[m.text].whoAmI THEN Result(S, "WhoAmI", "whoami", TRUE)
  ELSE IF ~permitted(S, m) THEN Result(S, "Denied", "denied", FALSE)
  ELSE authorizedCommand(S, m, t, zone)

processAccountingMessage(S, m, t, zone) ==
  LET p == syntax[m.text]
      addTarget == IF m.replyTo # "" THEN m.replyTo ELSE m.mention
  IN IF p.whoAmI
     THEN Result(S, "WhoAmI", "whoami", TRUE)
     ELSE IF p.addOperator
     THEN IF ~isGroupAdmin(m.lookup)
          THEN Result(S, "AddOperator", "not-admin", FALSE)
          ELSE IF addTarget = ""
          THEN Result(S, "AddOperator", "no-target", FALSE)
          ELSE LET r == addOperator(S, m.g, addTarget, m.ok)
               IN Result(r.S, "AddOperator",
                         IF r.success THEN "operator-added" ELSE "error",
                         r.success)
     ELSE IF p.removeOperator
     THEN IF ~isGroupAdmin(m.lookup)
          THEN Result(S, "RemoveOperator", "not-admin", FALSE)
          ELSE IF m.replyTo = ""
          THEN Result(S, "RemoveOperator", "no-target", FALSE)
          ELSE LET r == removeOperator(S, m.g, m.replyTo, m.ok)
               IN Result(r.S, "RemoveOperator",
                         IF r.success THEN "operator-removed" ELSE "error",
                         r.success)
     ELSE IF p.listOperators
     THEN Result(S, "ListOperators",
                 IF listOperators(S, m.g, m.ok).success THEN "operators"
                 ELSE "error",
                 listOperators(S, m.g, m.ok).success)
     ELSE IF ~permitted(S, m)
     THEN Result(S, "Denied", "denied", FALSE)
     ELSE authorizedCommand(S, m, t, zone)

\* execute of the step send-telegram-response: 1 when a sendMessage request
\* is made for the response, 0 when the step skips it
sendTelegramResponse(response, tokenSet) ==
  IF response = "" THEN 0
  ELSE IF ~tokenSet THEN 0
  ELSE 1

-----------------------------------------------------------------------------
(* The webhook and its duplicate filter (telegramTriggers.ts)               *)

UPDATE_CACHE_TTL == 1

\* the Map after the expired entries are deleted
unexpired(cache, t) ==
  {e \in cache : ~(t - e[2] > UPDATE_CACHE_TTL)}
has(cache, id) == \E e \in cache : e[1] = id

checkDuplicateUpdateRefreshing(cache, id, t) ==
  LET kept == unexpired(cache, t)
  IN IF has(kept, id)
     THEN [cache |-> {e \in kept : e[1] # id} \cup {<<id, t>>},
           duplicate |-> TRUE]
     ELSE [cache |-> kept \cup {<<id, t>>}, duplicate |-> FALSE]

checkDuplicateUpdate(cache, id, t) ==
  LET kept == unexpired(cache, t)
  IN IF has(kept, id) THEN [cache |-> kept, duplicate |-> TRUE]
     ELSE [cache |-> kept \cup {<<id, t>>}, duplicate |-> FALSE]

\* payload.update_id && checkDuplicateUpdate(payload.update_id): an absent
\* update_id (written -1 here) and the number 0 are both falsy, and then
\* the filter is not consulted at all
NoUpdateId == -1
truthy(id) == id # NoUpdateId /\ id # 0


webhookFilter(cache, id, t) ==
  IF truthy(id) THEN checkDuplicateUpdate(cache, id, t)
  ELSE [cache |-> cache, duplicate |-> FALSE]

-----------------------------------------------------------------------------
(* Specification SpecBot: messages of one group run through the workflow,    *)
(* in a spreadsheet that has no sheet of the former name                    *)

NoLast == [op |-> "none"]

BotGroups == {"g1"}
OperatorTexts == {T_addOp, T_deleteOp}
UncheckedTexts == {T_myID, <<" ">> \o T_opList}

\* the messages a group member can send.  Inputs a command never reads are
\* held at one value: a reply target or a mention only matters to the two
\* operator commands of an administrator, the member status is not looked
\* up for the commands that need no permission (only the token matters to
\* them, for the reply), and the store is not touched when a sender is
\* refused as no administrator.
Messages ==
  { m \in [g : BotGroups, u : Users, text : BotTexts,
           replyTo : {"", "u2"}, mention : {"", "u2"},
           lookup : Lookups, ok : BOOLEAN] :
      /\ m.replyTo # "" => m.mention = ""
      /\ m.text \notin OperatorTexts => m.replyTo = "" /\ m.mention = ""
      /\ m.text = T_deleteOp => m.mention = ""
      /\ m.text \in OperatorTexts
           /\ m.lookup \notin {"creator", "administrator"}
           => m.replyTo = "u2" /\ m.ok
      /\ m.text \in UncheckedTexts => m.lookup \in {"member", "no_token"}
      /\ m.text = T_myID => m.ok
      /\ m.text = <<"h", "i">> => m.lookup \in {"creator", "member"} /\ m.ok }

InitBot ==
  /\ now = 0
  /\ tz = 0
  /\ Deposits = <<>>
  /\ Withdrawals = <<>>
  /\ Operators = <<>>
  /\ GroupSettings = <<>>
  /\ legacySheet = FALSE
  /\ legacyCells = {}
  /\ processedUpdates = {}
  /\ started = <<>>
  /\ outbox = 0
  /\ procs = {}
  /\ last = NoLast

SetStore(S) ==
  /\ Deposits' = S.Deposits
  /\ Withdrawals' = S.Withdrawals
  /\ Operators' = S.Operators
  /\ GroupSettings' = S.GroupSettings
  /\ legacyCells' = S.legacyCells

\* how a run ended with respect to permissions: no check was made, the
\* sender was let through, was denied a ledger command, or was refused an
\* operator command
outcome(r) ==
  IF r.branch \in {"WhoAmI", "ListOperators"} THEN "unchecked"
  ELSE IF r.branch = "Denied" THEN "denied"
  ELSE IF r.response = "not-admin" THEN "refused"
  ELSE "authorized"

\* one run of the workflow: process-accounting-message, then
\* send-telegram-response (which has the bot token unless the lookup found
\* it missing)
Message(m) ==
  LET r == processAccountingMessage(Store, m, now, tz)
  IN /\ Len(r.S.Deposits) + Len(r.S.Withdrawals) <= MaxBotRows
     /\ Len(r.S.Operators) <= MaxOps
     /\ SetStore(r.S)
     /\ outbox' = sendTelegramResponse(r.response, m.lookup # "no_token")
     /\ last' = [op |-> "message", outcome |-> outcome(r)]
     /\ UNCHANGED <<now, tz, legacySheet, processedUpdates, started, procs>>

\* the tool setAllUsersMode, called for a group
SetAllUsersMode(g, enabled, ok) ==
  LET r == setAllUsersMode(Store, g, enabled, legacySheet, ok)
  IN /\ SetStore(r.S)
     /\ last' = [op |-> "setAllUsersMode", g |-> g, enabled |-> enabled,
                 success |-> r.success]
     /\ outbox' = 0
     /\ UNCHANGED <<now, tz, legacySheet, processedUpdates, started, procs>>

NextBot ==
  \/ \E m \in Messages : Message(m)
  \/ \E g \in BotGroups, enabled \in BOOLEAN, ok \in BOOLEAN :
       SetAllUsersMode(g, enabled, ok)

SpecBot == InitBot /\ [][NextBot]_vars

-----------------------------------------------------------------------------
(* Claims about permissions, checked under SpecBot                          *)

\* the sender's standing, read off the sheets
ActiveOperator(g, u) ==
  \E i \in DOMAIN Operators :
     /\ Operators[i].g = g
     /\ Operators[i].u = u
     /\ Operators[i].status = "Active"
AllUsersMode(g) ==
  \E i \in DOMAIN GroupSettings :
     GroupSettings[i].A = g /\ GroupSettings[i].E = StrCell("yes")
AdminReported(m) == m.lookup \in {"creator", "administrator"}
Unprivileged(m) ==
  ~AdminReported(m) /\ ~ActiveOperator(m.g, m.u) /\ ~AllUsersMode(m.g)
GatedTexts == BotTexts \ (OperatorTexts \cup UncheckedTexts)
Handled(m) == processAccountingMessage(Store, m, now, tz)
LedgerKept(r) ==
  /\ r.S.Deposits = Deposits
  /\ r.S.Withdrawals = Withdrawals
  /\ r.S.GroupSettings = GroupSettings
ActiveRecords ==
  \E i \in DOMAIN Deposits : Deposits[i].status = "Active"

\* C1: a message from a sender who is not reported an administrator and is
\* no Active operator, in a group without all-users mode, changes neither
\* the Deposits nor the Withdrawals nor the GroupSettings sheet, whatever
\* command it carries; the WhoAmI and the operator-list commands are
\* answered to every sender, with no permission check.
C1_NoMutationWithoutPermission ==
  \A m \in Messages :
     /\ Unprivileged(m) => LedgerKept(Handled(m))
     /\ m.text = T_myID =>
          Handled(m).branch = "WhoAmI" /\ Handled(m).response = "whoami"
     /\ m.text = <<" ">> \o T_opList =>
          /\ Handled(m).branch = "ListOperators"
          /\ Handled(m).response = IF m.ok THEN "operators" ELSE "error"

\* a sender was denied while the ledger held an Active record, in a group
\* without all-users mode
C1_Witness ==
  /\ last.op = "message" /\ last.outcome = "denied"
  /\ ActiveRecords
  /\ ~AllUsersMode("g1")

\* C2: a ledger command of a sender reported creator or administrator is
\* never denied, whatever the operator list and the all-users flag; a
\* ledger command of any other sender who is no Active operator, in a group
\* without all-users mode, is denied and changes nothing.
C2_AdminAlwaysAuthorized ==
  \A m \in Messages :
     m.text \in GatedTexts =>
       /\ AdminReported(m) => Handled(m).branch # "Denied"
       /\ Unprivileged(m) =>
            /\ Handled(m).branch = "Denied"
            /\ Handled(m).response = "denied"
            /\ Handled(m).S = Store

\* an administrator's deposit is in the ledger of a group that has no
\* operator and no all-users mode
C2_Witness ==
  /\ last.op = "message" /\ last.outcome = "authorized"
  /\ Operators = <<>>
  /\ ~AllUsersMode("g1")
  /\ ActiveRecords

\* C4: no failure of the lookup (token missing, HTTP error, API error,
\* exception) makes the sender an administrator: with a failed lookup the
\* Operators sheet is never changed, and the ledger is changed only for a
\* sender who is an Active operator or in all-users mode; when the
\* permission check cannot read the store either, the command is denied.
C4_FailClosed ==
  /\ \A lookup \in LookupFailures : ~isGroupAdmin(lookup)
  /\ \A m \in Messages :
       m.lookup \in LookupFailures =>
         /\ Handled(m).S.Operators = Operators
         /\ Unprivileged(m) => LedgerKept(Handled(m))
         /\ (m.text \in GatedTexts /\ ~m.ok) => Handled(m).branch = "Denied"

\* a sender whose lookup failed for want of the token was turned away (the
\* reply could not be sent either) while the ledger held an Active record
C4_Witness ==
  /\ last.op = "message" /\ last.outcome \in {"denied", "refused"}
  /\ outbox = 0
  /\ ActiveRecords

-----------------------------------------------------------------------------
(* Specification SpecSettings: the settings tools, called for two groups,    *)
(* with and without a sheet of the former name                              *)

InitSettings ==
  /\ now = 0
  /\ tz = 0
  /\ Deposits = <<>>
  /\ Withdrawals = <<>>
  /\ Operators = <<>>
  /\ GroupSettings = <<>>
  /\ legacySheet \in BOOLEAN
  /\ legacyCells = {}
  /\ processedUpdates = {}
  /\ started = <<>>
  /\ outbox = 0
  /\ procs = {}
  /\ last = NoLast

FeeRates == {DecInt(6), DecInt(0)}
CutoffHours == {0, 6}

SetIncomeFeeRate(g, rate, ok) ==
  LET r == setIncomeFeeRate(Store, g, rate, ok)
  IN /\ SetStore(r.S)
     /\ last' = [op |-> "setIncomeFeeRate"]
     /\ outbox' = 0
     /\ UNCHANGED <<now, tz, legacySheet, processedUpdates, started, procs>>

SetCutoffTime(g, hour, ok) ==
  LET r == setCutoffTime(Store, g, hour, ok)
  IN /\ SetStore(r.S)
     /\ last' = [op |-> "setCutoffTime"]
     /\ outbox' = 0
     /\ UNCHANGED <<now, tz, legacySheet, processedUpdates, started, procs>>

NextSettings ==
  \/ \E g \in Groups, enabled \in BOOLEAN, ok \in BOOLEAN :
       SetAllUsersMode(g, enabled, ok)
  \/ \E g \in Groups, rate \in FeeRates, ok \in BOOLEAN :
       SetIncomeFeeRate(g, rate, ok)
  \/ \E g \in Groups, hour \in CutoffHours, ok \in BOOLEAN :
       SetCutoffTime(g, hour, ok)

SpecSettings == InitSettings /\ [][NextSettings]_vars

\* C3: when setAllUsersMode(g, true) has returned success, checkUserPermission
\* grants every user of the group, whether the settings row of the group
\* was there before the call or was created by it.
C3_AllUsersModeTakesEffect ==
  (last.op = "setAllUsersMode" /\ last.enabled /\ last.success) =>
     \A u \in Users :
        checkUserPermission(Store, last.g, u, TRUE).hasPermission

-----------------------------------------------------------------------------
(* Specification SpecDedup: deliveries to the webhook route                 *)

UpdateIds == {NoUpdateId, 0, 1, 2}

InitDedup ==
  /\ now = 0
  /\ tz = 0
  /\ Deposits = <<>>
  /\ Withdrawals = <<>>
  /\ Operators = <<>>
  /\ GroupSettings = <<>>
  /\ legacySheet = FALSE
  /\ legacyCells = {}
  /\ processedUpdates = {}
  /\ started = <<>>
  /\ outbox = 0
  /\ procs = {}
  /\ last = NoLast

\* the POST handler of /webhooks/telegram/action for a payload with the
\* given update_id, with or without a message in it
Deliver(id, hasMessage) ==
  LET f == webhookFilter(processedUpdates, id, now)
      start == ~f.duplicate /\ hasMessage
  IN /\ start => Len(started) < MaxDeliveries
     /\ processedUpdates' = f.cache
     /\ started' = IF start THEN Append(started, [id |-> id, t |-> now])
                   ELSE started
     /\ last' = [op |-> "delivery", id |-> id, duplicate |-> f.duplicate]
     /\ UNCHANGED <<now, tz, Deposits, Withdrawals, Operators, GroupSettings,
                    legacySheet, legacyCells, outbox, procs>>

\* an hour passes
TickWebhook ==
  /\ now < MaxWebhookNow
  /\ now' = now + 1
  /\ UNCHANGED <<tz, Deposits, Withdrawals, Operators, GroupSettings,
                 legacySheet, legacyCells, processedUpdates, started, outbox,
                 procs, last>>

NextDedup ==
  \/ \E id \in UpdateIds, hasMessage \in BOOLEAN : Deliver(id, hasMessage)
  \/ TickWebhook

SpecDedup == InitDedup /\ [][NextDedup]_vars

\* C5: of two deliveries that carry the same update_id and arrive within
\* one hour of each other, the handler is started for at most one, whatever
\* the update_id and the order of arrival.
C5_HandlerStartedOnce ==
  \A i, j \in DOMAIN started :
     (i < j /\ started[i].id # NoUpdateId /\ started[i].id = started[j].id)
       => started[j].t - started[i].t > UPDATE_CACHE_TTL

-----------------------------------------------------------------------------
(* Specification SpecRace: tool executions of one group, interleaved at     *)
(* their spreadsheet requests.  Each request (a values.get, a values.update *)
(* of one cell, a values.append) is one step; what a tool has read it keeps *)
(* in its own variables (rows of Deposits, wrows of Withdrawals).           *)

Idle == [op |-> "idle", pc |-> "idle", rows |-> {}, wrows |-> {}]
Slots == 1..MaxProcs
RaceOps == {"revokeLastIncome", "revokeLastOutgoing", "deleteAllRecords",
            "dailySettlement"}
Min(set) == CHOOSE i \in set : \A j \in set : i <= j

InitRace ==
  /\ now = 0
  /\ tz = 0
  /\ Deposits = <<>>
  /\ Withdrawals = <<>>
  /\ Operators = <<>>
  /\ GroupSettings = <<>>
  /\ legacySheet = FALSE
  /\ legacyCells = {}
  /\ processedUpdates = {}
  /\ started = <<>>
  /\ outbox = 0
  /\ procs = [p \in Slots |-> Idle]
  /\ last = NoLast

RaceFrame ==
  UNCHANGED <<now, tz, Operators, GroupSettings, legacySheet, legacyCells,
              processedUpdates, started, outbox>>

\* addIncomeRecord / addOutgoingRecord: one values.append each
AppendRecord(sheet) ==
  /\ Len(Deposits) + Len(Withdrawals) < MaxRaceRows
  /\ IF sheet = "Deposits"
     THEN /\ Deposits' =
               addIncomeRecord(Store, "g1", "u1", DecInt(100), "THB", now,
                               TRUE).S.Deposits
          /\ UNCHANGED Withdrawals
     ELSE /\ Withdrawals' =
               addOutgoingRecord(Store, "g1", "u1", DecInt(100), "THB", now,
                                 TRUE).S.Withdrawals
          /\ UNCHANGED Deposits
  /\ last' = [op |-> "append"]
  /\ UNCHANGED procs
  /\ RaceFrame

\* a tool starts executing in a free slot
StartTool(p, op) ==
  /\ procs[p].op = "idle"
  /\ procs' = [procs EXCEPT ![p] = [op |-> op, pc |-> "read", rows |-> {},
                                    wrows |-> {}]]
  /\ last' = [op |-> "start"]
  /\ UNCHANGED <<Deposits, Withdrawals>>
  /\ RaceFrame

\* revokeLastIncome / revokeLastOutgoing: values.get, then the loop from the
\* last row backwards picks the row to mark
RevokeRead(p) ==
  /\ procs[p].pc = "read"
  /\ procs[p].op \in {"revokeLastIncome", "revokeLastOutgoing"}
  /\ LET i == IF procs[p].op = "revokeLastIncome"
              THEN lastActiveIndex(Deposits, "g1", "")
              ELSE lastActiveIndex(Withdrawals, "g1", "")
     IN procs' = [procs EXCEPT ![p] =
                    IF i = 0 THEN Idle
                    ELSE IF procs[p].op = "revokeLastIncome"
                    THEN [@ EXCEPT !.pc = "write", !.rows = {i}]
                    ELSE [@ EXCEPT !.pc = "write", !.wrows = {i}]]
  /\ last' = [op |-> "read"]
  /\ UNCHANGED <<Deposits, Withdrawals>>
  /\ RaceFrame

\* deleteAllRecords reads Deposits and marks its rows, then reads
\* Withdrawals and marks its rows; dailySettlement reads both sheets and
\* then marks the rows of both
SweepRead(p) ==
  /\ procs[p].pc \in {"read", "read2"}
  /\ procs[p].op \in {"deleteAllRecords", "dailySettlement"}
  /\ LET today == getTodayDateString(now, tz)
         inc == IF procs[p].op = "deleteAllRecords"
                THEN ActiveRows(Deposits, "g1")
                ELSE settledToday(Deposits, "g1", today)
         out == IF procs[p].op = "deleteAllRecords"
                THEN ActiveRows(Withdrawals, "g1")
                ELSE settledToday(Withdrawals, "g1", today)
     IN procs' = [procs EXCEPT ![p] =
          IF procs[p].pc = "read"
          THEN [@ EXCEPT !.rows = inc,
                         !.pc = IF procs[p].op = "deleteAllRecords" /\ inc # {}
                                THEN "write" ELSE "read2"]
          ELSE IF procs[p].rows = {} /\ out = {} THEN Idle
          ELSE [@ EXCEPT !.wrows = out, !.pc = "write"]]
  /\ last' = [op |-> "read"]
  /\ UNCHANGED <<Deposits, Withdrawals>>
  /\ RaceFrame

MarkStatus(op) ==
  CASE op = "deleteAllRecords" -> "Deleted"
    [] op = "dailySettlement" -> "Settled"
    [] OTHER -> "Reversed"

\* one values.update of a status cell, for the next row the tool holds
WriteStatus(p) ==
  /\ procs[p].pc = "write"
  /\ LET q == procs[p]
         onDeposits == q.rows # {}
         i == IF onDeposits THEN Min(q.rows) ELSE Min(q.wrows)
         sheet == IF onDeposits THEN Deposits ELSE Withdrawals
         left == IF onDeposits THEN [q EXCEPT !.rows = @ \ {i}]
                 ELSE [q EXCEPT !.wrows = @ \ {i}]
         next == IF left.rows # {} \/ left.wrows # {} THEN left
                 ELSE IF q.op = "deleteAllRecords" /\ onDeposits
                 THEN [left EXCEPT !.pc = "read2"]
                 ELSE Idle
     IN /\ q.rows # {} \/ q.wrows # {}
        /\ IF onDeposits
           THEN /\ Deposits' = MarkRows(Deposits, {i}, MarkStatus(q.op))
                /\ UNCHANGED Withdrawals
           ELSE /\ Withdrawals' = MarkRows(Withdrawals, {i}, MarkStatus(q.op))
                /\ UNCHANGED Deposits
        /\ procs' = [procs EXCEPT ![p] = next]
        /\ last' = [op |-> "mark", from |-> sheet[i].status,
                    to |-> MarkStatus(q.op)]
  /\ RaceFrame

NextRace ==
  \/ \E sheet \in {"Deposits", "Withdrawals"} : AppendRecord(sheet)
  \/ \E p \in Slots, op \in RaceOps : StartTool(p, op)
  \/ \E p \in Slots : RevokeRead(p)
  \/ \E p \in Slots : SweepRead(p)
  \/ \E p \in Slots : WriteStatus(p)

SpecRace == InitRace /\ [][NextRace]_vars

\* C6: the status of a record changes only away from Active (and so at most
\* once), under every interleaving of revokeLastIncome, revokeLastOutgoing,
\* deleteAllRecords and dailySettlement.
C6_StatusLeavesActiveOnce ==
  (last.op = "mark" /\ last.from # last.to) => last.from = "Active"

-----------------------------------------------------------------------------
(* Specification SpecLedger: the ledger tools, the reports of every Active *)
(* record and the fee settings, called one after the other for two groups  *)
(* while the clock advances                                                 *)

TickHours == HoursPerDay \div 2
DepositAmount == DecInt(1000)
WithdrawalAmount == DecInt(500)
SettingsGroups == {"g1"}
IncomeFeeRates == {DecNorm(0 - 25, 1)}
OutgoingFeeRates == {DecInt(0 - 5)}

InitLedger ==
  /\ now = 0
  /\ tz = 0
  /\ Deposits = <<>>
  /\ Withdrawals = <<>>
  /\ Operators = <<>>
  /\ GroupSettings = <<>>
  /\ legacySheet = FALSE
  /\ legacyCells = {}
  /\ processedUpdates = {}
  /\ started = <<>>
  /\ outbox = 0
  /\ procs = {}
  /\ last = NoLast

LedgerFrame ==
  /\ outbox' = 0
  /\ UNCHANGED <<now, tz, legacySheet, processedUpdates, started, procs>>

\* the rows of a sheet that a tool execution has changed
Changed(before, after) == {i \in DOMAIN before : before[i] # after[i]}

AddIncome(g, ok) ==
  LET r == addIncomeRecord(Store, g, "u1", DepositAmount, "THB", now, ok)
  IN /\ Len(Deposits) + Len(Withdrawals) < MaxRows
     /\ SetStore(r.S)
     /\ last' = [op |-> "addIncomeRecord"]
     /\ LedgerFrame

AddOutgoing(g, ok) ==
  LET r == addOutgoingRecord(Store, g, "u1", WithdrawalAmount, "THB", now, ok)
  IN /\ Len(Deposits) + Len(Withdrawals) < MaxRows
     /\ SetStore(r.S)
     /\ last' = [op |-> "addOutgoingRecord"]
     /\ LedgerFrame

SetOutgoingFeeRate(g, rate, ok) ==
  LET r == setOutgoingFeeRate(Store, g, rate, ok)
  IN /\ SetStore(r.S)
     /\ last' = [op |-> "setOutgoingFeeRate"]
     /\ LedgerFrame

ShowAllBills(g, ok) ==
  /\ last' = [op |-> "showAllBills", g |-> g,
              report |-> showAllBills(Store, g, ok)]
  /\ UNCHANGED <<Deposits, Withdrawals, Operators, GroupSettings,
                 legacyCells>>
  /\ LedgerFrame

DailySettlement(g, ok) ==
  LET r == dailySettlement(Store, g, now, tz, ok)
      today == getTodayDateString(now, tz)
  IN /\ SetStore(r.S)
     /\ last' = [op |-> "dailySettlement", g |-> g, today |-> today,
                 ok |-> ok, report |-> r.report,
                 marked |-> [Deposits |-> Changed(Deposits, r.S.Deposits),
                             Withdrawals |->
                               Changed(Withdrawals, r.S.Withdrawals)],
                 again |-> /\ last.op = "dailySettlement"
                           /\ last.g = g
                           /\ last.today = today
                           /\ last.report.success]
     /\ LedgerFrame

DeleteAllRecords(g, ok) ==
  LET r == deleteAllRecords(Store, g, ok)
  IN /\ SetStore(r.S)
     /\ last' = [op |-> "deleteAllRecords", g |-> g, success |-> r.success,
                 incomeDeleted |-> r.incomeDeleted,
                 outgoingDeleted |-> r.outgoingDeleted,
                 before |-> [Deposits |-> Deposits,
                             Withdrawals |-> Withdrawals],
                 again |-> /\ last.op = "deleteAllRecords"
                           /\ last.g = g
                           /\ last.success]
     /\ LedgerFrame

\* time passes between two calls
TickLedger ==
  /\ now + TickHours <= MaxNow
  /\ now' = now + TickHours
  /\ UNCHANGED <<tz, Deposits, Withdrawals, Operators, GroupSettings,
                 legacySheet, legacyCells, processedUpdates, started,
                 outbox, procs, last>>

NextLedger ==
  \/ \E g \in Groups, ok \in BOOLEAN : AddIncome(g, ok)
  \/ \E g \in Groups, ok \in BOOLEAN : AddOutgoing(g, ok)
  \/ \E g \in SettingsGroups, rate \in IncomeFeeRates, ok \in BOOLEAN :
       SetIncomeFeeRate(g, rate, ok)
  \/ \E g \in SettingsGroups, rate \in OutgoingFeeRates, ok \in BOOLEAN :
       SetOutgoingFeeRate(g, rate, ok)
  \/ \E g \in Groups, ok \in BOOLEAN : ShowAllBills(g, ok)
  \/ \E g \in Groups, ok \in BOOLEAN : DailySettlement(g, ok)
  \/ \E g \in Groups, ok \in BOOLEAN : DeleteAllRecords(g, ok)
  \/ TickLedger

SpecLedger == InitLedger /\ [][NextLedger]_vars

Zero == DecInt(0)
Hundred == DecInt(100)

\* C7: when dailySettlement has run twice in succession for the same group
\* on the same day, with no command in between, the second run marks
\* nothing and, the store answering, returns success with zero records and
\* totals of 0.
C7_SecondSettlementIsEmpty ==
  (last.op = "dailySettlement" /\ last.again) =>
     /\ last.marked.Deposits = {} /\ last.marked.Withdrawals = {}
     /\ last.ok =>
          /\ last.report.success
          /\ last.report.incomeRows = {} /\ last.report.outgoingRows = {}
          /\ last.report.totalIncome = Zero
          /\ last.report.totalOutgoing = Zero
          /\ last.report.netProfit = Zero

\* the second run follows a first run that settled a deposit and a
\* withdrawal of the group
C7_Witness ==
  /\ last.op = "dailySettlement" /\ last.again /\ last.ok
  /\ \E i \in DOMAIN Deposits :
       /\ Deposits[i].g = last.g /\ Deposits[i].status = "Settled"
       /\ recordDate(Deposits[i].ts) = last.today
  /\ \E i \in DOMAIN Withdrawals :
       /\ Withdrawals[i].g = last.g /\ Withdrawals[i].status = "Settled"
       /\ recordDate(Withdrawals[i].ts) = last.today

\* a row the call changed was Active before and is the same row, Deleted,
\* after
DeletedFrom(before, after) ==
  /\ Len(after) = Len(before)
  /\ \A i \in Changed(before, after) :
       /\ before[i].status = "Active"
       /\ after[i] = [before[i] EXCEPT !.status = "Deleted"]

\* C8: after deleteAllRecords(g) has succeeded no deposit and no withdrawal
\* of g is Active, every record the call changed was Active before and is
\* Deleted after, and a second call right after the first changes nothing
\* and reports 0 deposits and 0 withdrawals deleted.
C8_DeleteAllRecords ==
  (last.op = "deleteAllRecords" /\ last.success) =>
     /\ ActiveRows(Deposits, last.g) = {}
     /\ ActiveRows(Withdrawals, last.g) = {}
     /\ DeletedFrom(last.before.Deposits, Deposits)
     /\ DeletedFrom(last.before.Withdrawals, Withdrawals)
     /\ last.again =>
          /\ Deposits = last.before.Deposits
          /\ Withdrawals = last.before.Withdrawals
          /\ last.incomeDeleted = 0 /\ last.outgoingDeleted = 0

\* a call that deleted a deposit of the group and left a record of the other
\* group Active
C8_Witness ==
  /\ last.op = "deleteAllRecords" /\ last.success /\ ~last.again
  /\ last.incomeDeleted = 1
  /\ \E i \in DOMAIN Deposits :
       Deposits[i].g = last.g /\ Deposits[i].status = "Deleted"
  /\ \E i \in DOMAIN Withdrawals :
       Withdrawals[i].g # last.g /\ Withdrawals[i].status = "Active"

\* the fee arithmetic of a report, with the divisions cleared
FeeArithmetic(r) ==
  /\ DecMul(r.actualIncome, Hundred)
       = DecMul(r.totalIncome, DecSub(Hundred, r.incomeFeeRate))
  /\ DecMul(r.actualOutgoing, Hundred)
       = DecMul(r.totalOutgoing, DecAdd(Hundred, r.outgoingFeeRate))
  /\ r.netProfit = DecSub(r.actualIncome, r.actualOutgoing)
  /\ (r.incomeRows = {} /\ r.outgoingRows = {}) =>
       /\ r.totalIncome = Zero /\ r.totalOutgoing = Zero
       /\ r.actualIncome = Zero /\ r.actualOutgoing = Zero
       /\ r.netProfit = Zero

InRange(rate) == DecGe(rate, DecInt(0 - 100)) /\ DecGe(Hundred, rate)

\* C9: for the Active records of a group and fee rates in [-100, 100], a
\* ledger report has actualDeposits = grossDeposits * (100 - incomeFeeRate)
\* / 100, actualWithdrawals = grossWithdrawals * (100 + outgoingFeeRate) /
\* 100 and netBalance = actualDeposits - actualWithdrawals, the gross sums
\* being those of the records reported; with zero records every sum is 0
\* and the report is still produced.  This is stated of the report that
\* showAllBills or dailySettlement has just returned, and of the
\* since-cutoff report of each group in the state reached.
C9_FeeArithmetic ==
  /\ (last.op \in {"showAllBills", "dailySettlement"}
        /\ last.report.success) =>
       LET r == last.report
       IN /\ InRange(r.incomeFeeRate) /\ InRange(r.outgoingFeeRate)
          /\ r.totalIncome = SumAmounts(Deposits, r.incomeRows)
          /\ r.totalOutgoing = SumAmounts(Withdrawals, r.outgoingRows)
          /\ last.op = "showAllBills" =>
               /\ r.incomeRows = ActiveRows(Deposits, last.g)
               /\ r.outgoingRows = ActiveRows(Withdrawals, last.g)
          /\ FeeArithmetic(r)
  /\ \A g \in Groups :
       LET q == showAllBillsSinceCutoff(Store, g, now, tz, TRUE)
       IN q.report.success /\ FeeArithmetic(q.report)

\* deposits of 1000 at 6% and withdrawals of 500 at 0% reported as 940, 500
\* and 440
C9_Witness ==
  /\ last.op = "showAllBills" /\ last.report.success
  /\ last.report.totalIncome = DecInt(1000)
  /\ last.report.incomeFeeRate = DecInt(6)
  /\ last.report.totalOutgoing = DecInt(500)
  /\ last.report.outgoingFeeRate = Zero
  /\ last.report.actualIncome = DecInt(940)
  /\ last.report.actualOutgoing = DecInt(500)
  /\ last.report.netProfit = DecInt(440)

-----------------------------------------------------------------------------
(* Specification SpecCutoff: deposits of one group and its since-cutoff     *)
(* report, on a server in UTC or in Bangkok time, while the clock advances  *)
(* by quarters of a day                                                     *)

ServerZones == {0, BangkokOffset}
QuarterDay == HoursPerDay \div 4
CutoffGroups == {"g1"}

InitCutoff ==
  /\ now = 0
  /\ tz \in ServerZones
  /\ Deposits = <<>>
  /\ Withdrawals = <<>>
  /\ Operators = <<>>
  /\ GroupSettings = <<>>
  /\ legacySheet = FALSE
  /\ legacyCells = {}
  /\ processedUpdates = {}
  /\ started = <<>>
  /\ outbox = 0
  /\ procs = {}
  /\ last = NoLast

RecordDeposit(g, ok) ==
  LET r == addIncomeRecord(Store, g, "u1", DepositAmount, "THB", now, ok)
  IN /\ Len(Deposits) < MaxCutoffRows
     /\ SetStore(r.S)
     /\ last' = [op |-> "addIncomeRecord"]
     /\ LedgerFrame

ShowAllBillsSinceCutoff(g, ok) ==
  LET r == showAllBillsSinceCutoff(Store, g, now, tz, ok)
  IN /\ SetStore(r.S)
     /\ last' = [op |-> "showAllBillsSinceCutoff", g |-> g,
                 report |-> r.report, at |-> now, refreshed |-> r.refreshed,
                 before |-> LET i == settingsRowIndex(GroupSettings, g)
                            IN IF i = 0 THEN Empty ELSE GroupSettings[i].H]
     /\ LedgerFrame

TickCutoff ==
  /\ now + QuarterDay <= MaxCutoffNow
  /\ now' = now + QuarterDay
  /\ UNCHANGED <<tz, Deposits, Withdrawals, Operators, GroupSettings,
                 legacySheet, legacyCells, processedUpdates, started,
                 outbox, procs, last>>

NextCutoff ==
  \/ \E g \in CutoffGroups, ok \in BOOLEAN : RecordDeposit(g, ok)
  \/ \E g \in CutoffGroups, hour \in CutoffHours, ok \in BOOLEAN :
       SetCutoffTime(g, hour, ok)
  \/ \E g \in CutoffGroups, ok \in BOOLEAN : ShowAllBillsSinceCutoff(g, ok)
  \/ \E g \in CutoffGroups, ok \in BOOLEAN : DeleteAllRecords(g, ok)
  \/ TickCutoff

SpecCutoff == InitCutoff /\ [][NextCutoff]_vars

\* the last refresh time a group has in column H of its settings row
lastRefreshTime(g) ==
  LET i == settingsRowIndex(GroupSettings, g)
  IN IF i = 0 THEN Empty ELSE GroupSettings[i].H

\* the instant whose Bangkok wall clock reads h
instantOf(h) == h - BangkokOffset

\* C10: in the since-cutoff report just returned, an Active deposit of the
\* group created before the instant stored as the last refresh time is left
\* out of the line items, and one created after that instant is among them.
C10_CutoffWindow ==
  (last.op = "showAllBillsSinceCutoff" /\ last.report.success
     /\ lastRefreshTime(last.g).k = "time") =>
     \A i \in ActiveRows(Deposits, last.g) :
        LET created == Deposits[i].ts
            cutoff == instantOf(lastRefreshTime(last.g).t)
        IN /\ created < cutoff => i \notin last.report.incomeRows
           /\ created > cutoff => i \in last.report.incomeRows

\* C11: while a group has no last refresh time, its since-cutoff report
\* holds every Active deposit and withdrawal of the group, whatever their
\* timestamps and whatever the time of the query.
C11_UnsetIncludesAll ==
  \A g \in CutoffGroups :
     IsEmpty(lastRefreshTime(g)) =>
        LET q == showAllBillsSinceCutoff(Store, g, now, tz, TRUE)
        IN /\ q.report.incomeRows = ActiveRows(Deposits, g)
           /\ q.report.outgoingRows = ActiveRows(Withdrawals, g)

\* the cutoff hour a group has in column E of its settings row
cutoffHourOf(g) ==
  LET i == settingsRowIndex(GroupSettings, g)
  IN IF i = 0 THEN DecInt(DefaultCutoffHour)
     ELSE parseIntCell(GroupSettings[i].E, DefaultCutoffHour)

\* today's cutoff, as a Bangkok wall clock
cutoffToday(t, hour) == (bangkokTime(t) \div HoursPerDay) * HoursPerDay + hour

\* C12: a since-cutoff query writes the last refresh time only when the
\* cutoff hour is >= 0, the time of the query has passed today's cutoff and
\* the value stored before predates that cutoff (so that a further query of
\* the same day writes nothing); the value written is today's cutoff; with
\* a cutoff hour of -1 nothing is written.
C12_RefreshOncePerDay ==
  (last.op = "showAllBillsSinceCutoff" /\ last.report.success) =>
     LET hour == cutoffHourOf(last.g)
         cutoff == cutoffToday(last.at, hour.m)
     IN /\ last.refreshed =>
             /\ DecGe(hour, DecInt(0))
             /\ bangkokTime(last.at) >= cutoff
             /\ IsEmpty(last.before) \/ last.before.t < cutoff
             /\ lastRefreshTime(last.g) = TimeCell(cutoff)
        /\ hour = DecInt(0 - 1) => ~last.refreshed
        /\ ~last.refreshed => lastRefreshTime(last.g) = last.before

-----------------------------------------------------------------------------
(* Further properties of the workflow, under SpecBot                        *)

\* the text satisfies none of the command rules of processAccountingMessage
MatchesNoRule(text) ==
  LET p == syntax[text]
  IN ~(\/ p.whoAmI \/ p.addOperator \/ p.removeOperator \/ p.listOperators
       \/ p.income \/ p.outgoing \/ p.bills \/ p.fullBills \/ p.dailySettle
       \/ p.incomeFee \/ p.outgoingFee \/ p.deleteAll)

\* C13: for a message whose text matches none of the command rules the
\* workflow makes no sendMessage request, whoever the sender is.
C13_UnrecognizedIsSilent ==
  \A m \in Messages :
     MatchesNoRule(m.text) =>
        sendTelegramResponse(Handled(m).response, m.lookup # "no_token") = 0

-----------------------------------------------------------------------------
(* Specification SpecCommands: messages with texts at the edges of the      *)
(* command rules, sent in one group by an administrator or by a member who  *)
(* is no operator                                                           *)

StoreTexts == CommandTexts \ {T_myID, <<"h", "i">>, T_fullBills,
                              <<" ">> \o T_bills \o <<" ">>}

\* as for Messages, an input a command never reads is held at one value
CommandMessages ==
  { m \in [g : BotGroups, u : {"u1"}, text : CommandTexts,
           replyTo : {"", "u2"}, mention : {""},
           lookup : {"creator", "member"}, ok : BOOLEAN] :
      /\ m.text \notin OverlapTexts => m.replyTo = ""
      /\ m.text \notin StoreTexts => m.ok }

InitCommands ==
  /\ now = 0
  /\ tz = 0
  /\ Deposits = <<>>
  /\ Withdrawals = <<>>
  /\ Operators = <<>>
  /\ GroupSettings = <<>>
  /\ legacySheet = FALSE
  /\ legacyCells = {}
  /\ processedUpdates = {}
  /\ started = <<>>
  /\ outbox = 0
  /\ procs = {}
  /\ last = NoLast

\* one run of the workflow for a message
CommandMessage(m) ==
  LET r == processAccountingMessage(Store, m, now, tz)
  IN /\ Len(r.S.Deposits) + Len(r.S.Withdrawals) <= MaxCommandRows
     /\ Len(r.S.Operators) <= MaxCommandOps
     /\ SetStore(r.S)
     /\ outbox' = sendTelegramResponse(r.response, TRUE)
     /\ last' = [op |-> "command", text |-> m.text, branch |-> r.branch,
                 success |-> r.success]
     /\ UNCHANGED <<now, tz, legacySheet, processedUpdates, started, procs>>

NextCommands == \E m \in CommandMessages : CommandMessage(m)

SpecCommands == InitCommands /\ [][NextCommands]_vars

\* the fee rates a group has in its settings
storedRates(rows, g) == feeRates(rows, g, DefaultIncomeFeeRate)

\* C14: a fee-rate command whose rate lies outside [-100, 100] is answered
\* with an error reply and leaves the settings as they were; the rates 100
\* and -100 (every rate of the range) are stored when an administrator
\* sends the command and the store answers.
C14_FeeRateRange ==
  \A m \in CommandMessages :
     m.text \in FeeTexts =>
        LET p == syntax[m.text]
            rate == IF p.incomeFee THEN p.incomeFeeRate ELSE p.outgoingFeeRate
            r == Handled(m)
            stored == storedRates(r.S.GroupSettings, m.g)
        IN /\ ~InRange(rate) =>
                /\ r.S = Store /\ ~r.success
                /\ r.response = IF AdminReported(m) THEN "rate-out-of-range"
                                ELSE "denied"
           /\ (InRange(rate) /\ AdminReported(m) /\ m.ok) =>
                /\ r.success /\ r.response = "rate-set"
                /\ rate = IF p.incomeFee THEN stored.income
                          ELSE stored.outgoing

\* an income fee rate of 150 has just been refused while the group has the
\* rates -100 and 100 stored
C14_Witness ==
  /\ last.op = "command" /\ ~last.success
  /\ last.text = T_incomeFee \o <<"1", "5", "0">>
  /\ last.branch = "SetIncomeFeeRate"
  /\ storedRates(GroupSettings, "g1").income = DecInt(0 - 100)
  /\ storedRates(GroupSettings, "g1").outgoing = Hundred

\* C15: every record in the Deposits and Withdrawals sheets has an amount
\* greater than 0.
C15_AmountsPositive ==
  /\ \A i \in DOMAIN Deposits : DecGt(Deposits[i].amount, Zero)
  /\ \A i \in DOMAIN Withdrawals : DecGt(Withdrawals[i].amount, Zero)

-----------------------------------------------------------------------------
(* SpecRevoke: deposits and their reversal (transactionTools.ts). The       *)
(* agent calls the tools with the arguments it chooses; a revoke may carry *)
(* no userId ("") or the id of any user.                                    *)

RevokeAmounts == {DecInt(500), DecInt(250)}
RevokeUserIds == {""} \cup Users

InitRevoke == InitLedger

AddIncomeRecord(g, u, amount, ok) ==
  LET r == addIncomeRecord(Store, g, u, amount, "THB", now, ok)
  IN /\ Len(Deposits) < MaxRevokeRows
     /\ SetStore(r.S)
     /\ last' = [op |-> "addIncomeRecord", g |-> g, u |-> u,
                 success |-> r.success, before |-> Deposits]
     /\ LedgerFrame

RevokeLastIncome(g, userId, ok) ==
  LET r == revokeLastIncome(Store, g, userId, ok)
  IN /\ SetStore(r.S)
     /\ last' = [op |-> "revokeLastIncome", g |-> g, userId |-> userId,
                 ok |-> ok, success |-> r.success, row |-> r.row,
                 before |-> Deposits,
                 prev |-> IF last.op = "addIncomeRecord" THEN last
                          ELSE NoLast]
     /\ LedgerFrame

NextRevoke ==
  \/ \E g \in Groups, u \in Users, a \in RevokeAmounts, ok \in BOOLEAN :
        AddIncomeRecord(g, u, a, ok)
  \/ \E g \in Groups, userId \in RevokeUserIds, ok \in BOOLEAN :
        RevokeLastIncome(g, userId, ok)
  \/ \E g \in Groups, ok \in BOOLEAN : DeleteAllRecords(g, ok)

SpecRevoke == InitRevoke /\ [][NextRevoke]_vars

ActiveSum(sheet, g) == SumAmounts(sheet, ActiveRows(sheet, g))

\* the revoke that has just run followed a successful deposit in its group
\* with no operation in between, and its own store calls were answered
RevokeFollowsDeposit ==
  /\ last.op = "revokeLastIncome" /\ last.ok
  /\ last.prev.op = "addIncomeRecord" /\ last.prev.success
  /\ last.prev.g = last.g

\* the revoke has marked exactly the row the deposit appended
RoundTrip ==
  /\ last.success
  /\ last.row = Len(last.before)
  /\ Changed(last.before, Deposits) = {last.row}
  /\ Deposits[last.row] = [last.before[last.row] EXCEPT !.status = "Reversed"]
  /\ ActiveSum(Deposits, last.g) = ActiveSum(last.prev.before, last.g)

\* a revoke that found no Active record reports failure and changes nothing
NotFoundMutatesNothing ==
  (last.op = "revokeLastIncome"
     /\ lastActiveIndex(last.before, last.g, last.userId) = 0)
  => ~last.success /\ last.row = 0 /\ Deposits = last.before

\* C16 as stated: a successful deposit in g followed immediately by
\* revokeLastIncome for g, whatever userId the call carries, has exactly that
\* deposit marked Reversed, no other record changed and g's Active sum back at
\* its value before the deposit; a revoke with no Active record reports
\* not-found and mutates nothing.
C16_RoundTripAnyCall ==
  /\ RevokeFollowsDeposit => RoundTrip
  /\ NotFoundMutatesNothing

\* C16, amended: the round trip holds when the revoke carries no userId or
\* the depositor's userId (with another user's id the tool reverses that
\* user's last Active deposit, or finds none).
C16_RoundTrip ==
  /\ (RevokeFollowsDeposit /\ last.userId \in {"", last.prev.u}) => RoundTrip
  /\ NotFoundMutatesNothing

\* a deposit by u1 was reversed by a call without userId while the group had
\* an earlier Active deposit by u2
C16_Witness ==
  /\ RevokeFollowsDeposit /\ last.userId = "" /\ last.prev.u = "u1"
  /\ last.success /\ last.row = 2
  /\ last.before[1].g = last.g /\ last.before[1].u = "u2"
  /\ last.before[1].status = "Active"
  /\ Deposits[2].status = "Reversed"

-----------------------------------------------------------------------------
(* SpecCron: the scheduled jobs (dailySettlementWorkflow.ts,                *)
(* weeklyCleanupWorkflow.ts). A run enumerates the groups of GroupSettings  *)
(* and handles them one after the other; the environment decides, for each  *)
(* position of the list, whether the tool's store calls are answered and    *)
(* what becomes of the sendMessage request.                                 *)

\* the store answers and Telegram accepts; the store fails (the tool returns
\* success false); Telegram answers with an error status; fetch rejects
CronOutcomes ==
  {[store |-> TRUE, send |-> "ok"], [store |-> FALSE, send |-> "ok"],
   [store |-> TRUE, send |-> "rejected"], [store |-> TRUE, send |-> "throws"]}

\* the job's configuration: complete, TELEGRAM_BOT_TOKEN unset, or the read
\* of GroupSettings failing
CronEnvs == {"ok", "no-token", "list-fails"}

RECURSIVE groupIds(_, _)
groupIds(rows, i) ==
  IF i > Len(rows) THEN <<>>
  ELSE IF rows[i].A # "" THEN <<rows[i].A>> \o groupIds(rows, i + 1)
  ELSE groupIds(rows, i + 1)

\* step "get-active-groups": column A of every settings row, [] on an error
getActiveGroups(S, ok) == IF ok THEN groupIds(S.GroupSettings, 1) ELSE <<>>

\* the entry pushed to groupResults: success true only in the response.ok
\* branch; the other branch and the catch push success false
GroupResult(g, o) == [groupId |-> g, success |-> o.send = "ok"]

\* a loop body whose exception leaves the loop
settleOneGroupRethrowing(acc, g, t, zone, o) ==
  IF acc.threw THEN acc
  ELSE LET r == dailySettlement(acc.S, g, t, zone, o.store)
       IN IF o.send = "throws" THEN [acc EXCEPT !.S = r.S, !.threw = TRUE]
          ELSE [acc EXCEPT !.S = r.S,
                           !.results = Append(@, GroupResult(g, o))]

\* one pass of "for (const group of activeGroups) { try ... catch ... }"
settleOneGroup(acc, g, t, zone, o) ==
  LET r == dailySettlement(acc.S, g, t, zone, o.store)
  IN [acc EXCEPT !.S = r.S, !.results = Append(@, GroupResult(g, o))]

cleanupOneGroup(acc, g, o) ==
  LET r == deleteAllRecords(acc.S, g, o.store)
  IN [acc EXCEPT !.S = r.S, !.results = Append(@, GroupResult(g, o))]

RECURSIVE settleFrom(_, _, _, _, _, _)
settleFrom(acc, groups, i, t, zone, outcomes) ==
  IF i > Len(groups) THEN acc
  ELSE settleFrom(settleOneGroup(acc, groups[i], t, zone, outcomes[i]),
                  groups, i + 1, t, zone, outcomes)

RECURSIVE cleanupFrom(_, _, _, _)
cleanupFrom(acc, groups, i, outcomes) ==
  IF i > Len(groups) THEN acc
  ELSE cleanupFrom(cleanupOneGroup(acc, groups[i], outcomes[i]),
                   groups, i + 1, outcomes)

\* dailySettlementCron: both steps of a run
dailySettlementCron(S, t, zone, env, outcomes) ==
  LET groups == getActiveGroups(S, env # "list-fails")
      start == [S |-> S, results |-> <<>>, threw |-> FALSE]
  IN IF env = "no-token" THEN start
     ELSE settleFrom(start, groups, 1, t, zone, outcomes)

\* dailyCleanupCron: both steps of a run
dailyCleanupCron(S, env, outcomes) ==
  LET groups == getActiveGroups(S, env # "list-fails")
      start == [S |-> S, results |-> <<>>, threw |-> FALSE]
  IN IF env = "no-token" THEN start
     ELSE cleanupFrom(start, groups, 1, outcomes)

CronOutcomeLists == [1..MaxCronGroups -> CronOutcomes]

InitCron == InitLedger

\* a group gets its settings row when a setting is first written for it
RegisterGroup(g, ok) ==
  LET r == setIncomeFeeRate(Store, g, DecInt(DefaultFeeRate), ok)
  IN /\ Len(r.S.GroupSettings) <= MaxCronGroups
     /\ SetStore(r.S)
     /\ last' = [op |-> "setIncomeFeeRate"]
     /\ LedgerFrame

CronDeposit(g, ok) ==
  LET r == addIncomeRecord(Store, g, "u1", DepositAmount, "THB", now, ok)
  IN /\ Len(Deposits) < MaxCronRows
     /\ SetStore(r.S)
     /\ last' = [op |-> "addIncomeRecord"]
     /\ LedgerFrame

DailySettlementCron(env, outcomes) ==
  LET r == dailySettlementCron(Store, now, tz, env, outcomes)
  IN /\ SetStore(r.S)
     /\ last' = [op |-> "dailySettlementCron", results |-> r.results,
                 threw |-> r.threw]
     /\ LedgerFrame

DailyCleanupCron(env, outcomes) ==
  LET r == dailyCleanupCron(Store, env, outcomes)
  IN /\ SetStore(r.S)
     /\ last' = [op |-> "dailyCleanupCron", results |-> r.results,
                 threw |-> r.threw]
     /\ LedgerFrame

NextCron ==
  \/ \E g \in Groups, ok \in BOOLEAN : RegisterGroup(g, ok)
  \/ \E g \in Groups, ok \in BOOLEAN : CronDeposit(g, ok)
  \/ \E env \in CronEnvs, o \in CronOutcomeLists : DailySettlementCron(env, o)
  \/ \E env \in CronEnvs, o \in CronOutcomeLists : DailyCleanupCron(env, o)

SpecCron == InitCron /\ [][NextCron]_vars

\* what a run of either job must have done with the enumerated list when
\* the bot token is set and the list was read
OneEntryPerGroup(r, groups, o) ==
  /\ Len(r.results) = Len(groups)
  /\ \A i \in 1..Len(groups) :
        /\ r.results[i].groupId = groups[i]
        /\ r.results[i].success = (o[i].send = "ok")

NothingLeftToSettle(S, g) ==
  /\ settledToday(S.Deposits, g, getTodayDateString(now, tz)) = {}
  /\ settledToday(S.Withdrawals, g, getTodayDateString(now, tz)) = {}

NothingLeftActive(S, g) ==
  /\ ActiveRows(S.Deposits, g) = {}
  /\ ActiveRows(S.Withdrawals, g) = {}

\* C17: in a run of the daily settlement job or of the daily cleanup job
\* (bot token set), whatever fails for one group - the store behind the tool
\* or the notification - the job does not throw, the result list has exactly
\* one entry per enumerated group, in the list's order, and every group whose
\* store calls are answered is settled (cleaned) even when an earlier group
\* failed. Without the token, or when the list cannot be read, the job
\* handles no group and does not throw either.
C17_FailureIsolated ==
  \A env \in CronEnvs, o \in CronOutcomeLists :
     LET groups == getActiveGroups(Store, TRUE)
         s == dailySettlementCron(Store, now, tz, env, o)
         c == dailyCleanupCron(Store, env, o)
     IN /\ ~s.threw /\ ~c.threw
        /\ env = "ok" =>
             /\ OneEntryPerGroup(s, groups, o)
             /\ OneEntryPerGroup(c, groups, o)
             /\ \A i \in 1..Len(groups) :
                   o[i].store => /\ NothingLeftToSettle(s.S, groups[i])
                                 /\ NothingLeftActive(c.S, groups[i])
        /\ env # "ok" =>
             /\ s.results = <<>> /\ s.S = Store
             /\ c.results = <<>> /\ c.S = Store

\* a settlement run whose notification failed for the first group has
\* settled the second group's deposit and reported it
C17_Witness ==
  /\ last.op = "dailySettlementCron" /\ ~last.threw
  /\ Len(last.results) = 2
  /\ ~last.results[1].success /\ last.results[2].success
  /\ last.results[1].groupId # last.results[2].groupId
  /\ \E i \in DOMAIN Deposits :
        /\ Deposits[i].g = last.results[2].groupId
        /\ Deposits[i].status = "Settled"

\* C18: when the store fails behind a deposit, a withdrawal or a delete-all
\* command of an administrator, the workflow's result has success false, the
\* reply does not announce a success, and the sheets are left as they were.
C18_StoreFailureIsReported ==
  \A m \in CommandMessages :
     LET r == Handled(m)
     IN (r.branch \in {"Deposit", "Withdraw", "DeleteAll"} /\ ~m.ok) =>
           /\ ~r.success
           /\ r.response \notin {"deposit-ok", "withdraw-ok"}
           /\ r.S = Store

-----------------------------------------------------------------------------
(* SpecRates: the exchange rate of a group and the USDT figures of its      *)
(* ledger report (part_003, queryTools.ts)                                  *)

setExchangeRate(S, g, rate, ok) ==
  LET i == settingsRowIndex(S.GroupSettings, g)
  IN IF ~ok THEN [S |-> S, success |-> FALSE]
     ELSE IF i # 0
     THEN [S |-> [S EXCEPT !.GroupSettings[i].B = NumCell(rate)],
           success |-> TRUE]
     ELSE [S |-> [S EXCEPT !.GroupSettings = Append(@,
                    SettingsRow(g, NumCell(rate),
                      NumCell(DecInt(DefaultFeeRate)), NumCell(DecInt(0)),
                      NumCell(DecInt(DefaultCutoffHour)), YesNo(FALSE),
                      YesNo(FALSE), Empty, YesNo(FALSE), StrCell("zh")))],
           success |-> TRUE]

\* parseFloat(settingsRows[i][1] || "35"), 35 without a settings row
exchangeRateOf(rows, g) ==
  LET i == settingsRowIndex(rows, g)
  IN IF i = 0 THEN DecInt(DefaultExchangeRate)
     ELSE parseFloatCell(rows[i].B, DefaultExchangeRate)

\* n / d rounded to the nearest integer, halves away from zero (d > 0)
DivRound(n, d) ==
  IF n >= 0 THEN (2 * n + d) \div (2 * d)
  ELSE 0 - ((2 * (0 - n) + d) \div (2 * d))

\* (a / b).toFixed(digits): a division by zero does not throw, it gives
\* Infinity, -Infinity or NaN, and toFixed prints those words; otherwise the
\* quotient in units of 10^-digits
toFixedQuotient(a, b, digits) ==
  IF a.nan \/ b.nan \/ (a.m = 0 /\ b.m = 0) THEN [text |-> "NaN", units |-> 0]
  ELSE IF b.m = 0
  THEN [text |-> IF a.m > 0 THEN "Infinity" ELSE "-Infinity", units |-> 0]
  ELSE LET num == a.m * Pow10(b.e + digits)
           den == b.m * Pow10(a.e)
       IN [text |-> "number",
           units |-> IF den > 0 THEN DivRound(num, den)
                     ELSE DivRound(0 - num, 0 - den)]

\* the lines "... | x USDT" of the message and what the tool returns with it
showAllBillsMessage(S, g, t, zone, ok) ==
  LET r == showAllBillsSinceCutoff(S, g, t, zone, ok)
      exchangeRate == exchangeRateOf(S.GroupSettings, g)
  IN [S |-> r.S, success |-> r.report.success,
      exchangeRate |-> exchangeRate,
      usdt |-> IF ~r.report.success THEN <<>>
               ELSE <<toFixedQuotient(r.report.actualIncome, exchangeRate, 2),
                      toFixedQuotient(r.report.actualOutgoing, exchangeRate, 4),
                      toFixedQuotient(r.report.netProfit, exchangeRate, 2)>>]

ExchangeRates == {DecInt(0), DecInt(DefaultExchangeRate)}

InitRates == InitLedger

SetExchangeRate(g, rate, ok) ==
  LET r == setExchangeRate(Store, g, rate, ok)
  IN /\ SetStore(r.S)
     /\ last' = [op |-> "setExchangeRate"]
     /\ LedgerFrame

ShowAllBillsMessage(g, ok) ==
  LET r == showAllBillsMessage(Store, g, now, tz, ok)
  IN /\ SetStore(r.S)
     /\ last' = [op |-> "showAllBills", g |-> g, success |-> r.success,
                 exchangeRate |-> r.exchangeRate, usdt |-> r.usdt]
     /\ LedgerFrame

NextRates ==
  \/ \E g \in SettingsGroups, rate \in ExchangeRates, ok \in BOOLEAN :
        SetExchangeRate(g, rate, ok)
  \/ \E g \in SettingsGroups, ok \in BOOLEAN : AddIncome(g, ok)
  \/ \E g \in SettingsGroups, ok \in BOOLEAN : AddOutgoing(g, ok)
  \/ \E g \in SettingsGroups, ok \in BOOLEAN : ShowAllBillsMessage(g, ok)
  \/ TickLedger

SpecRates == InitRates /\ [][NextRates]_vars

\* C19: a ledger query for a group whose stored exchange rate is 0 is
\* answered with a failure (success false), not with a report.
C19_ZeroRateIsRefused ==
  (last.op = "showAllBills" /\ last.exchangeRate = Zero) => ~last.success

-----------------------------------------------------------------------------
(* The order of the command rules, under SpecCommands                      *)

RuleOrder ==
  <<"WhoAmI", "AddOperator", "RemoveOperator", "ListOperators", "Deposit",
    "Withdraw", "ShowLedger", "ShowLedgerFull", "DailySettle",
    "SetIncomeFeeRate", "SetOutgoingFeeRate", "DeleteAll">>

\* the rules answered before the permission check
UngatedRules == {"WhoAmI", "AddOperator", "RemoveOperator", "ListOperators"}

Satisfies(text, rule) ==
  LET p == syntax[text]
  IN CASE rule = "WhoAmI" -> p.whoAmI
       [] rule = "AddOperator" -> p.addOperator
       [] rule = "RemoveOperator" -> p.removeOperator
       [] rule = "ListOperators" -> p.listOperators
       [] rule = "Deposit" -> p.income
       [] rule = "Withdraw" -> p.outgoing
       [] rule = "ShowLedger" -> p.bills
       [] rule = "ShowLedgerFull" -> p.fullBills
       [] rule = "DailySettle" -> p.dailySettle
       [] rule = "SetIncomeFeeRate" -> p.incomeFee
       [] rule = "SetOutgoingFeeRate" -> p.outgoingFee
       [] rule = "DeleteAll" -> p.deleteAll

\* the earliest rule of the order that the text satisfies
FirstRule(text) ==
  LET c == {i \in DOMAIN RuleOrder : Satisfies(text, RuleOrder[i])}
  IN IF c = {} THEN "Unrecognized"
     ELSE RuleOrder[CHOOSE i \in c : \A j \in c : i <= j]

-----------------------------------------------------------------------------
(* Deposits and withdrawals by message, under SpecCommands                  *)

\* what each amount text is to record
ExpectedRecord ==
  [text \in AmountTexts |->
     CASE text = <<"+", "0">> ->
            [sheet |-> "Deposits", amount |-> DecInt(0), currency |-> "THB"]
       [] text = <<"+", "5", "$">> ->
            [sheet |-> "Deposits", amount |-> DecInt(5), currency |-> "USD"]
       [] text = <<"-", "0", ".", "0">> ->
            [sheet |-> "Withdrawals", amount |-> DecInt(0),
             currency |-> "THB"]
       [] text = <<"-", "7", ".", "5", "$">> ->
            [sheet |-> "Withdrawals", amount |-> DecNorm(75, 1),
             currency |-> "USD"]]

\* C21: a message +N or +N$ of a permitted sender, the store answering,
\* appends exactly one Active record to Deposits for the sender's chat, with
\* amount N and currency USD exactly when the $ is there (THB otherwise),
\* and leaves Withdrawals alone; -N and -N$ do the same to Withdrawals and
\* leave Deposits alone.
C21_AmountCommandAppendsOne ==
  \A m \in CommandMessages :
     (m.text \in AmountTexts /\ permitted(Store, m) /\ m.ok) =>
        LET x == ExpectedRecord[m.text]
            r == Handled(m)
            row == [id |-> now, ts |-> now, g |-> m.g, u |-> m.u,
                    amount |-> x.amount, currency |-> x.currency,
                    status |-> "Active"]
        IN IF x.sheet = "Deposits"
           THEN /\ r.S.Deposits = Append(Deposits, row)
                /\ r.S.Withdrawals = Withdrawals
           ELSE /\ r.S.Withdrawals = Append(Withdrawals, row)
                /\ r.S.Deposits = Deposits

\* the message +5$ has just recorded a deposit of 5 USD
C21_Witness ==
  /\ last.op = "command" /\ last.text = <<"+", "5", "$">>
  /\ last.branch = "Deposit"
  /\ Len(Deposits) = 1 /\ Withdrawals = <<>>
  /\ Deposits[1].amount = DecInt(5) /\ Deposits[1].currency = "USD"
  /\ Deposits[1].status = "Active" /\ Deposits[1].g = "g1"

-----------------------------------------------------------------------------
(* The settings row a first write creates, under SpecSettings              *)

\* C22: a settings row, whichever command created it, holds the defaults in
\* the fields no command has written: under SpecSettings no command writes
\* the exchange rate or the outgoing fee rate, so getGroupSettings reads 35
\* and 0 for every group that has a row.
C22_FirstWriteKeepsDefaults ==
  \A g \in Groups :
     settingsRowIndex(GroupSettings, g) # 0 =>
        LET s == getGroupSettings(Store, g, TRUE)
        IN /\ s.exchangeRate = DecInt(DefaultExchangeRate)
           /\ s.outgoingFeeRate = Zero

-----------------------------------------------------------------------------
(* SpecMidnight: the settlement job on its schedule "0 0 * * *", with the   *)
(* clock running (dailySettlementWorkflow.ts, part_006)                     *)

\* every store call answered and every notification accepted
AllGoesWell == [i \in 1..MaxCronGroups |-> [store |-> TRUE, send |-> "ok"]]

InitMidnight ==
  /\ now = 0
  /\ tz \in ServerZones
  /\ Deposits = <<>>
  /\ Withdrawals = <<>>
  /\ Operators = <<>>
  /\ GroupSettings = <<>>
  /\ legacySheet = FALSE
  /\ legacyCells = {}
  /\ processedUpdates = {}
  /\ started = <<>>
  /\ outbox = 0
  /\ procs = {}
  /\ last = NoLast

\* the cron fires at 00:00 UTC
SettlementAtMidnight(outcomes) ==
  LET r == dailySettlementCron(Store, now, tz, "ok", outcomes)
  IN /\ now % HoursPerDay = 0
     /\ SetStore(r.S)
     /\ last' = [op |-> "dailySettlementCron", results |-> r.results,
                 threw |-> r.threw]
     /\ LedgerFrame

NextMidnight ==
  \/ \E g \in Groups, ok \in BOOLEAN : RegisterGroup(g, ok)
  \/ \E g \in Groups, ok \in BOOLEAN : CronDeposit(g, ok)
  \/ \E o \in CronOutcomeLists : SettlementAtMidnight(o)
  \/ TickLedger

SpecMidnight == InitMidnight /\ [][NextMidnight]_vars

\* the groups the job enumerates
Registered(g) == settingsRowIndex(GroupSettings, g) # 0

\* C23: at a midnight that closes day d, a run of the settlement job in
\* which nothing fails marks Settled every deposit of an enumerated group
\* that was created on day d and is still Active.
C23_MidnightSettlesTheDay ==
  (now % HoursPerDay = 0 /\ now > 0) =>
     LET r == dailySettlementCron(Store, now, tz, "ok", AllGoesWell)
         d == (now \div HoursPerDay) - 1
     IN \A i \in DOMAIN Deposits :
           (/\ Registered(Deposits[i].g)
            /\ Deposits[i].status = "Active"
            /\ recordDate(Deposits[i].ts) = d)
           => r.S.Deposits[i].status = "Settled"

-----------------------------------------------------------------------------
(* Who may change the operator list, under SpecBot                          *)

\* C24: an add-operator or remove-operator message of a sender who is not
\* reported creator or administrator - an Active operator and a sender in a
\* group with all-users mode included - is answered with the permission
\* error and changes no sheet; a message with neither a reply nor a
\* text_mention leaves the Operators sheet unchanged.
C24_OnlyAdminsChangeOperators ==
  \A m \in Messages :
     LET p == syntax[m.text]
         r == Handled(m)
     IN (~p.whoAmI /\ (p.addOperator \/ p.removeOperator)) =>
           /\ ~AdminReported(m) =>
                /\ r.response = "not-admin" /\ ~r.success
                /\ r.S = Store
           /\ (m.replyTo = "" /\ m.mention = "") =>
                r.S.Operators = Operators

\* an operator command has been refused in a group that has an Active
\* operator and all-users mode on
C24_Witness ==
  /\ last.op = "message" /\ last.outcome = "refused"
  /\ \E i \in DOMAIN Operators :
        Operators[i].g = "g1" /\ Operators[i].status = "Active"
  /\ AllUsersMode("g1")

-----------------------------------------------------------------------------
(* SpecOperators: the operator list of a group, written by addOperator and  *)
(* removeOperator (groupAccountingTools.ts); no group has all-users mode    *)

InitOperators == InitLedger

AddOperator(g, u, ok) ==
  LET r == addOperator(Store, g, u, ok)
  IN /\ Len(Operators) < MaxOperatorRows
     /\ SetStore(r.S)
     /\ last' = [op |-> "addOperator", g |-> g, u |-> u,
                 success |-> r.success]
     /\ LedgerFrame

RemoveOperator(g, u, ok) ==
  LET r == removeOperator(Store, g, u, ok)
  IN /\ SetStore(r.S)
     /\ last' = [op |-> "removeOperator", g |-> g, u |-> u,
                 success |-> r.success]
     /\ LedgerFrame

NextOperators ==
  \/ \E g \in Groups, u \in Users, ok \in BOOLEAN : AddOperator(g, u, ok)
  \/ \E g \in Groups, u \in Users, ok \in BOOLEAN : RemoveOperator(g, u, ok)

SpecOperators == InitOperators /\ [][NextOperators]_vars

\* C25: when removeOperator(g, u) has returned success, checkUserPermission
\* denies u in g (no all-users mode), whatever additions and removals went
\* before.
C25_RemovedIsDenied ==
  (last.op = "removeOperator" /\ last.success) =>
     ~checkUserPermission(Store, last.g, last.u, TRUE).hasPermission

-----------------------------------------------------------------------------
(* The last refresh time over a run, under SpecCutoff                       *)

\* the query that has just run has written the last refresh time
RefreshWritten ==
  /\ last.op = "showAllBillsSinceCutoff" /\ last.refreshed
  /\ lastRefreshTime(last.g).k = "time"

\* a write never stores less than the value it replaces
RefreshNeverBackward ==
  (RefreshWritten /\ last.before.k = "time") =>
     lastRefreshTime(last.g).t >= last.before.t

\* a write never stores an instant later than the time of the query
RefreshNeverInFuture ==
  RefreshWritten => instantOf(lastRefreshTime(last.g).t) <= last.at

\* C26: each write of a group's last refresh time stores a value greater
\* than or equal to the one before and not later than the current time.
C26_RefreshTimeMonotone == RefreshNeverBackward /\ RefreshNeverInFuture


\* ---------------------------------------------------------------------
\* Settings-writing tools in flight at once.  Each tool is two store calls:
\* values.get of GroupSettings!A:J, then either values.update of one cell of
\* the row it found or values.append of a fresh row.  Other runs may act
\* between the two calls.
\* ---------------------------------------------------------------------
SettingTools == {"setIncomeFeeRate", "setOutgoingFeeRate"}
SettingRates == {DecInt(3), DecInt(4)}

InitSettingsRace ==
  /\ now = 0
  /\ tz = 0
  /\ Deposits = <<>>
  /\ Withdrawals = <<>>
  /\ Operators = <<>>
  /\ GroupSettings = <<>>
  /\ legacySheet = FALSE
  /\ legacyCells = {}
  /\ processedUpdates = {}
  /\ started = <<>>
  /\ outbox = 0
  /\ procs = [p \in Slots |-> Idle]
  /\ last = NoLast

SettingsRaceFrame ==
  UNCHANGED <<now, tz, Deposits, Withdrawals, Operators, legacySheet,
              legacyCells, processedUpdates, started, outbox>>

StartSetting(p, tool, g, rate) ==
  /\ procs[p].pc = "idle"
  /\ procs' = [procs EXCEPT ![p] = [op |-> tool, pc |-> "get", g |-> g,
                                    rate |-> rate, rowIndex |-> 0]]
  /\ UNCHANGED <<GroupSettings, last>>
  /\ SettingsRaceFrame

\* values.get and the loop that looks for the group's row.
GetSettingsRows(p) ==
  /\ procs[p].pc = "get"
  /\ procs' = [procs EXCEPT ![p].pc = "put",
                 ![p].rowIndex = settingsRowIndex(GroupSettings, procs[p].g)]
  /\ UNCHANGED <<GroupSettings, last>>
  /\ SettingsRaceFrame

freshSettingsRow(tool, g, rate) ==
  IF tool = "setIncomeFeeRate"
  THEN SettingsRow(g, NumCell(DecInt(DefaultExchangeRate)), NumCell(rate),
         NumCell(DecInt(0)), NumCell(DecInt(DefaultCutoffHour)),
         YesNo(FALSE), YesNo(FALSE), Empty, YesNo(FALSE), Empty)
  ELSE SettingsRow(g, NumCell(DecInt(DefaultExchangeRate)),
         NumCell(DecInt(DefaultFeeRate)), NumCell(rate),
         NumCell(DecInt(DefaultCutoffHour)), YesNo(FALSE), YesNo(FALSE),
         Empty, YesNo(FALSE), Empty)

\* values.update of the found row's cell, or values.append of a fresh row.
PutSetting(p) ==
  LET q == procs[p]
  IN /\ q.pc = "put"
     /\ q.rowIndex # 0 \/ Len(GroupSettings) < MaxSettingsRaceRows
     /\ GroupSettings' =
          IF q.rowIndex # 0
          THEN IF q.op = "setIncomeFeeRate"
               THEN [GroupSettings EXCEPT ![q.rowIndex].C = NumCell(q.rate)]
               ELSE [GroupSettings EXCEPT ![q.rowIndex].D = NumCell(q.rate)]
          ELSE Append(GroupSettings, freshSettingsRow(q.op, q.g, q.rate))
     /\ procs' = [procs EXCEPT ![p] = Idle]
     /\ last' = [op |-> q.op, g |-> q.g, rate |-> q.rate, success |-> TRUE]
     /\ SettingsRaceFrame

NextSettingsRace ==
  \/ \E p \in Slots, tool \in SettingTools, g \in Groups,
        rate \in SettingRates : StartSetting(p, tool, g, rate)
  \/ \E p \in Slots : GetSettingsRows(p)
  \/ \E p \in Slots : PutSetting(p)

SpecSettingsRace == InitSettingsRace /\ [][NextSettingsRace]_vars

settingsRowsOf(g) == {i \in DOMAIN GroupSettings : GroupSettings[i].A = g}

OneSettingsRowPerGroup ==
  \A g \in Groups : Cardinality(settingsRowsOf(g)) <= 1

LastChangeIsRead ==
  /\ last.op = "setIncomeFeeRate" =>
       getGroupSettings(Store, last.g, TRUE).incomeFeeRate = last.rate
  /\ last.op = "setOutgoingFeeRate" =>
       getGroupSettings(Store, last.g, TRUE).outgoingFeeRate = last.rate

\* C27: under every interleaving of settings-writing tools for one group the
\* GroupSettings sheet holds at most one row per groupId, and the change a
\* tool has just reported as successful is the value getGroupSettings reads.
C27_OneRowPerGroup == OneSettingsRowPerGroup /\ LastChangeIsRead


\* ---------------------------------------------------------------------
\* Deposit commands handled as workflow runs in flight at once.  The trigger
\* starts a run for each message and does not wait for it; a run checks the
\* sender's permission and then calls addIncomeRecord, whose only store
\* write is one values.append.
\* ---------------------------------------------------------------------
DepositAmounts == {DecInt(100), DecInt(50)}

InitDeposits ==
  /\ now = 0
  /\ tz = 0
  /\ Deposits = <<>>
  /\ Withdrawals = <<>>
  /\ Operators = << [g |-> "g1", u |-> "u1", status |-> "Active"],
                    [g |-> "g2", u |-> "u1", status |-> "Active"] >>
  /\ GroupSettings = <<>>
  /\ legacySheet = FALSE
  /\ legacyCells = {}
  /\ processedUpdates = {}
  /\ started = <<>>
  /\ outbox = 0
  /\ procs = [p \in Slots |-> Idle]
  /\ last = NoLast

DepositsFrame ==
  UNCHANGED <<now, tz, Withdrawals, Operators, GroupSettings, legacySheet,
              legacyCells, processedUpdates, started>>

\* run.start, not awaited by the trigger.
StartDepositRun(p, g, u, amount) ==
  /\ procs[p].pc = "idle"
  /\ procs' = [procs EXCEPT ![p] = [op |-> "deposit", pc |-> "permission",
                                    g |-> g, u |-> u, amount |-> amount,
                                    success |-> FALSE]]
  /\ UNCHANGED <<Deposits, outbox, last>>
  /\ DepositsFrame

CheckDepositPermission(p, ok) ==
  LET q == procs[p]
  IN /\ q.pc = "permission"
     /\ procs' = [procs EXCEPT ![p].pc =
                    IF checkUserPermission(Store, q.g, q.u, ok).hasPermission
                    THEN "append" ELSE "done"]
     /\ UNCHANGED <<Deposits, outbox, last>>
     /\ DepositsFrame

AppendDeposit(p, ok) ==
  LET q == procs[p]
      r == addIncomeRecord(Store, q.g, q.u, q.amount, "THB", now, ok)
  IN /\ q.pc = "append"
     /\ Deposits' = r.S.Deposits
     /\ procs' = [procs EXCEPT ![p].pc = "done", ![p].success = r.success]
     /\ outbox' = outbox + 1
     /\ last' = [op |-> "addIncomeRecord", g |-> q.g, success |-> r.success]
     /\ DepositsFrame

NextDeposits ==
  \/ \E p \in Slots, g \in Groups, u \in Users, amount \in DepositAmounts :
        StartDepositRun(p, g, u, amount)
  \/ \E p \in Slots, ok \in BOOLEAN : CheckDepositPermission(p, ok)
  \/ \E p \in Slots, ok \in BOOLEAN : AppendDeposit(p, ok)

SpecDeposits == InitDeposits /\ [][NextDeposits]_vars

SucceededRuns(g) ==
  {p \in Slots : procs[p].pc = "done" /\ procs[p].success /\ procs[p].g = g}

RECURSIVE RunTotal(_)
RunTotal(runs) ==
  IF runs = {} THEN DecInt(0)
  ELSE LET p == CHOOSE q \in runs : TRUE
       IN DecAdd(procs[p].amount, RunTotal(runs \ {p}))

RecordOfRun(row, p) ==
  /\ row.g = procs[p].g
  /\ row.u = procs[p].u
  /\ row.amount = procs[p].amount
  /\ row.status = "Active"

AppendingTools == {"addIncomeRecord", "addOutgoingRecord", "addOperator"}
MarkingTools == {"revokeLastIncome", "deleteAllRecords", "dailySettlement",
                 "removeOperator", "setIncomeFeeRate"}

InitIsolation ==
  /\ now = 0
  /\ tz = 0
  /\ Deposits = <<>>
  /\ Withdrawals = <<>>
  /\ Operators = <<>>
  /\ GroupSettings = <<>>
  /\ legacySheet = FALSE
  /\ legacyCells = {}
  /\ processedUpdates = {}
  /\ started = <<>>
  /\ outbox = 0
  /\ procs = [p \in Slots |-> Idle]
  /\ last = NoLast

IsolationFrame ==
  UNCHANGED <<now, tz, legacySheet, legacyCells, processedUpdates, started,
              outbox, last>>

IsolationRows ==
  Len(Deposits) + Len(Withdrawals) + Len(Operators) + Len(GroupSettings)

StartCommand(p, tool, g) ==
  /\ procs[p].pc = "idle"
  /\ procs' = [procs EXCEPT ![p] =
                 [op |-> tool, g |-> g, rows |-> {}, wrows |-> {},
                  pc |-> IF tool \in AppendingTools THEN "append"
                         ELSE "read"]]
  /\ UNCHANGED <<Deposits, Withdrawals, Operators, GroupSettings>>
  /\ IsolationFrame

\* values.append of addIncomeRecord, addOutgoingRecord, addOperator
AppendRow(p) ==
  LET q == procs[p]
  IN /\ q.pc = "append"
     /\ CASE q.op = "addIncomeRecord" ->
               /\ IsolationRows < MaxIsolationRows
               /\ Deposits' = addIncomeRecord(Store, q.g, "u1", DecInt(100),
                                "THB", now, TRUE).S.Deposits
               /\ UNCHANGED <<Withdrawals, Operators>>
          [] q.op = "addOutgoingRecord" ->
               /\ IsolationRows < MaxIsolationRows
               /\ Withdrawals' = addOutgoingRecord(Store, q.g, "u1",
                                   DecInt(100), "THB", now, TRUE).S.Withdrawals
               /\ UNCHANGED <<Deposits, Operators>>
          [] OTHER ->
               /\ IsolationRows < MaxIsolationRows
               /\ Operators' = addOperator(Store, q.g, "u1", TRUE).S.Operators
               /\ UNCHANGED <<Deposits, Withdrawals>>
     /\ procs' = [procs EXCEPT ![p] = Idle]
     /\ UNCHANGED GroupSettings
     /\ IsolationFrame

\* values.get and the loop that picks the rows the tool will write;
\* deleteAllRecords reads Withdrawals only after it has marked Deposits
ReadRows(p) ==
  LET q == procs[p]
      today == getTodayDateString(now, tz)
      picked ==
        CASE q.op = "revokeLastIncome" ->
               [rows |-> {lastActiveIndex(Deposits, q.g, "")} \ {0},
                wrows |-> {}]
          [] q.op = "deleteAllRecords" ->
               IF q.pc = "read"
               THEN [rows |-> ActiveRows(Deposits, q.g), wrows |-> {}]
               ELSE [rows |-> {}, wrows |-> ActiveRows(Withdrawals, q.g)]
          [] q.op = "dailySettlement" ->
               [rows |-> settledToday(Deposits, q.g, today),
                wrows |-> settledToday(Withdrawals, q.g, today)]
          [] q.op = "removeOperator" ->
               [rows |-> {operatorIndex(Operators, q.g, "u1")} \ {0},
                wrows |-> {}]
          [] OTHER ->
               [rows |-> {settingsRowIndex(GroupSettings, q.g)} \ {0},
                wrows |-> {}]
  IN /\ q.pc \in {"read", "read2"}
     /\ procs' = [procs EXCEPT ![p] =
                    IF picked.rows = {} /\ picked.wrows = {}
                       /\ q.op # "setIncomeFeeRate"
                    THEN IF q.op = "deleteAllRecords" /\ q.pc = "read"
                         THEN [q EXCEPT !.pc = "read2"]
                         ELSE Idle
                    ELSE [q EXCEPT !.pc = "write", !.rows = picked.rows,
                                   !.wrows = picked.wrows]]
     /\ UNCHANGED <<Deposits, Withdrawals, Operators, GroupSettings>>
     /\ IsolationFrame

\* one values.update (or the values.append of a first settings row)
WriteCell(p) ==
  LET q == procs[p]
      onFirst == q.rows # {}
      i == IF onFirst THEN Min(q.rows) ELSE Min(q.wrows)
      left == IF onFirst THEN [q EXCEPT !.rows = @ \ {i}]
              ELSE [q EXCEPT !.wrows = @ \ {i}]
  IN /\ q.pc = "write"
     /\ CASE q.op = "setIncomeFeeRate" ->
               /\ onFirst \/ IsolationRows < MaxIsolationRows
               /\ GroupSettings' =
                    IF onFirst
                    THEN [GroupSettings EXCEPT ![i].C = NumCell(DecInt(3))]
                    ELSE Append(GroupSettings,
                           freshSettingsRow(q.op, q.g, DecInt(3)))
               /\ UNCHANGED <<Deposits, Withdrawals, Operators>>
               /\ procs' = [procs EXCEPT ![p] = Idle]
          [] q.op = "removeOperator" ->
               /\ Operators' = [Operators EXCEPT ![i].status = "Removed"]
               /\ UNCHANGED <<Deposits, Withdrawals, GroupSettings>>
               /\ procs' = [procs EXCEPT ![p] = Idle]
          [] OTHER ->
               /\ IF onFirst
                  THEN /\ Deposits' = MarkRows(Deposits, {i}, MarkStatus(q.op))
                       /\ UNCHANGED Withdrawals
                  ELSE /\ Withdrawals' =
                            MarkRows(Withdrawals, {i}, MarkStatus(q.op))
                       /\ UNCHANGED Deposits
               /\ UNCHANGED <<Operators, GroupSettings>>
               /\ procs' = [procs EXCEPT ![p] =
                              IF left.rows # {} \/ left.wrows # {} THEN left
                              ELSE IF q.op = "deleteAllRecords" /\ onFirst
                              THEN [left EXCEPT !.pc = "read2"]
                              ELSE Idle]
     /\ IsolationFrame

NextIsolation ==
  \/ \E p \in Slots, tool \in AppendingTools \cup MarkingTools, g \in Groups :
        StartCommand(p, tool, g)
  \/ \E p \in Slots : AppendRow(p)
  \/ \E p \in Slots : ReadRows(p)
  \/ \E p \in Slots : WriteCell(p)

SpecIsolation == InitIsolation /\ [][NextIsolation]_vars

\* the rows of groups other than h are where and what they were, and every
\* row that is new belongs to h
LedgerRowsKept(before, after, h) ==
  /\ Len(before) <= Len(after)
  /\ \A i \in DOMAIN after :
       IF i \in DOMAIN before
       THEN before[i].g # h => after[i] = before[i]
       ELSE after[i].g = h

SettingsRowsKept(before, after, h) ==
  /\ Len(before) <= Len(after)
  /\ \A i \in DOMAIN after :
       IF i \in DOMAIN before
       THEN before[i].A # h => after[i] = before[i]
       ELSE after[i].A = h

StepOfGroup(h) ==
  \E p \in Slots :
    /\ procs'[p] # procs[p]
    /\ h = IF procs[p].pc = "idle" THEN procs'[p].g ELSE procs[p].g

CheckedIds == {0, 1, 2}
entriesOf(cache, id) == {e \in cache : e[1] = id}
RecordedWithinTtl(id) ==
  \E e \in processedUpdates :
     e[1] = id /\ now - e[2] >= 0 /\ now - e[2] <= UPDATE_CACHE_TTL

\* C30: a call checkDuplicateUpdate(id) at time t leaves a cache that holds
\* id (once) and no entry recorded more than UPDATE_CACHE_TTL before t; it
\* reports a duplicate exactly when id was recorded within the preceding
\* UPDATE_CACHE_TTL; and on a duplicate the entry keeps the time at which it
\* was first recorded.
C30_DuplicateFilter ==
  \A id \in CheckedIds :
    LET r == checkDuplicateUpdate(processedUpdates, id, now)
    IN /\ Cardinality(entriesOf(r.cache, id)) = 1
       /\ \A e \in r.cache : now - e[2] <= UPDATE_CACHE_TTL
       /\ r.duplicate <=> RecordedWithinTtl(id)
       /\ r.duplicate =>
            entriesOf(r.cache, id) = entriesOf(processedUpdates, id)
       /\ ~r.duplicate => entriesOf(r.cache, id) = {<<id, now>>}

\* a delivery was found a duplicate exactly UPDATE_CACHE_TTL after its id
\* was recorded, by a call that also purged an older entry
C30_Witness ==
  /\ last.op = "delivery" /\ last.duplicate
  /\ \E e \in processedUpdates :
       e[1] = last.id /\ now - e[2] = UPDATE_CACHE_TTL
  /\ \A e \in processedUpdates : now - e[2] <= UPDATE_CACHE_TTL
  /\ \E i \in DOMAIN started : ~has(processedUpdates, started[i].id)

====
